---------------------------- MODULE Spec2Model ----------------------------
(***************************************************************************)
(* Model of the contradiction detection engine of dje-analise-v2           *)
(* (src/src/analyzers/contradiction_detector.py and the records of         *)
(* src/src/models/contradiction_models.py) and of its trend engine         *)
(* (src/src/analyzers/change_monitor.py and the records of                 *)
(* src/src/models/change_monitor_models.py).                               *)
(*                                                                         *)
(* Conventions.  Python None is the string NoneVal.  Similarity scores are *)
(* integers in thousandths (One = 1.0).  A case is identified by its id    *)
(* (ChromaDB ids are unique in one query result).  The ratios of the trend *)
(* engine are exact fractions: the rounding of the doubles of the source   *)
(* is not modelled, and the ratios drawn never meet a bound of the source  *)
(* that a double misses.                                                   *)
(***************************************************************************)
EXTENDS Integers, Sequences, FiniteSets, TLC

VARIABLES
    pc,              \* position of the running call
    cases,           \* detect_contradictions: cases (list of JurisprudenceCase)
    threshold,       \* similarity_threshold
    i, j,            \* _find_similar_pairs: positions of the pair examined next
    similar_pairs,   \* _find_similar_pairs: similar_pairs
    simLog,          \* history: every similarity _calculate_similarity returned
    k,               \* _analyze_contradictions: position of the pair examined next
    analysis,        \* _check_contradiction: analysis
    adjLog,          \* history: every call of _ai_contradiction_analysis
    contradictions,  \* _analyze_contradictions: contradictions
    clusters,        \* detect_contradictions: clusters
    report,          \* the ContradictionReport returned, NoReport before
    alertInput,      \* create_alerts: contradictions
    priority_threshold, \* create_alerts: priority_threshold
    alerts,          \* create_alerts: the list returned
    call,            \* detect_contradictions: the arguments of the call
    document,        \* the text handed to the two decision taggers
    decision_type,   \* _detect_decision_type(text) of the detector
    decision,        \* _detect_decision(text) of the monitor
    config,          \* ChangeMonitor.config
    cases_by_tribunal, \* _analyze_trends: cases_by_tribunal
    trends,          \* monitor_theme: trends
    changes,         \* monitor_theme: changes
    monitorAlerts,   \* monitor_theme: alerts
    earlierTrends,   \* the trends of the call of monitor_theme before this one
    stored           \* the documents the collection holds

\* the variables of the detector
detectorVars == <<pc, cases, threshold, i, j, similar_pairs, simLog, k,
                  analysis, adjLog, contradictions, clusters, report,
                  alertInput, priority_threshold, alerts, call>>

\* the variables of the decision taggers on their own
taggerVars == <<document, decision_type, decision>>

\* the variables of the monitor
monitorVars == <<config, cases_by_tribunal, trends, changes, monitorAlerts,
                 earlierTrends>>

vars == <<detectorVars, taggerVars, monitorVars, stored>>

---------------------------------------------------------------------------
(* Bounds of the model *)

\* most cases one retrieval returns (max_cases of the modelled calls)
MaxCases == 3
\* longest contradiction list handed to _cluster_contradictions on its own
MaxClusterInput == 4
\* longest list handed to create_alerts or to _generate_alerts on its own
MaxAlertInput == 3
\* most periods in the history of a tribunal
MaxPeriods == 3
\* most words of a text handed to the decision taggers on their own
MaxWords == 3

---------------------------------------------------------------------------
(* Values *)

NoneVal == "<None>"
One == 1000
ThemeUnspecified == "Tema não especificado"

\* Python truth value of an Optional[str]
Truthy(s) == s \notin {NoneVal, ""}

Min(a, b) == IF a <= b THEN a ELSE b
Max(a, b) == IF a >= b THEN a ELSE b

Reverse(s) == [x \in 1..Len(s) |-> s[Len(s) + 1 - x]]

SeqToSet(s) == {s[x] : x \in 1..Len(s)}

---------------------------------------------------------------------------
(* list.sort(key=..., reverse=...): a stable sort.  The elements are given  *)
(* as <<key, element>> tuples.  With reverse=True CPython reverses the     *)
(* list, sorts it stably in ascending order and reverses it again, which   *)
(* keeps elements of equal key in their original order.                    *)

InsertAsc(sorted, e) ==
    LET p == Cardinality({x \in 1..Len(sorted) : sorted[x][1] <= e[1]})
    IN  SubSeq(sorted, 1, p) \o <<e>> \o SubSeq(sorted, p + 1, Len(sorted))

RECURSIVE SortAsc(_)
SortAsc(kv) ==
    IF kv = <<>> THEN <<>>
    ELSE InsertAsc(SortAsc(SubSeq(kv, 1, Len(kv) - 1)), kv[Len(kv)])

\* the naive descending sort, which reverses the order of equal keys
ListSortReverseUnstable(kv) == Reverse(SortAsc(kv))

ListSortReverse(kv) == Reverse(SortAsc(Reverse(kv)))

ListSort(kv) == SortAsc(kv)

Elements(kv) == [x \in 1..Len(kv) |-> kv[x][2]]

---------------------------------------------------------------------------
(* Texts and the decision tagger.  A text is the sequence of its tokens,   *)
(* lower-cased as text.lower() leaves it: maximal runs of word characters, *)
(* and the separators " " and "-" between them.  A regular expression of   *)
(* decision_patterns is the set of its alternatives, each a sequence of    *)
(* token sets; the \b at both ends holds at every token boundary.          *)

AcolhWords == {"acolhido", "acolhida", "acolheu", "acolhimento"}
RejeitWords == {"rejeitado", "rejeitada", "rejeitou", "rejeito"}

decision_patterns ==
    << [label |-> "provido",
        alts  |-> { <<{"provido", "provida"}>>,
                    <<{"deu"}, {"-"}, {"se"}, {" "}, {"provimento"}>>,
                    <<{"dar"}, {" "}, {"provimento"}>> }],
       [label |-> "nao_provido",
        alts  |-> { <<{"não", "nao"}, {"-", " "}, {"provido", "provida"}>>,
                    <<{"negou"}, {"-"}, {"se"}, {" "}, {"provimento"}>>,
                    <<{"negar"}, {" "}, {"provimento"}>>,
                    <<{"desprovido", "desprovida"}>> }],
       [label |-> "procedente",
        alts  |-> { <<{"procedente"}>>, <<AcolhWords>> }],
       [label |-> "improcedente",
        alts  |-> { <<{"improcedente"}>>, <<RejeitWords>> }],
       [label |-> "deferido",
        alts  |-> { <<{"deferido", "deferida"}>>,
                    <<{"defere"}, {"-"}, {"se"}>> }],
       [label |-> "indeferido",
        alts  |-> { <<{"indeferido", "indeferida"}>>,
                    <<{"indefere"}, {"-"}, {"se"}>> }] >>

\* re.search of one alternative in a text
AltFound(alt, text) ==
    \E off \in 0..(Len(text) - Len(alt)) :
        \A x \in 1..Len(alt) : text[off + x] \in alt[x]

PatternFound(pat, text) == \E alt \in pat.alts : AltFound(alt, text)

\* _detect_decision_type: the label of the first pattern, in the order of
\* the dict, that is found in the text; None when no pattern is found
DetectDecisionType(text) ==
    LET hits == {x \in 1..Len(decision_patterns) :
                    PatternFound(decision_patterns[x], text)}
    IN  IF hits = {} THEN NoneVal
        ELSE decision_patterns[CHOOSE x \in hits : \A y \in hits : x <= y].label

---------------------------------------------------------------------------
(* The collection the detector and the monitor are built on: documents     *)
(* with their metadata, as the ingestion left them.  The year 0 stands    *)
(* for a year the metadata lacks or keeps empty.                           *)

collection ==
    { [ id |-> 1, year |-> 2023, tribunal |-> "TRE-SP",
        tema |-> "registro", text |-> <<"recurso", " ", "provido">>],
      [ id |-> 2, year |-> 2023, tribunal |-> "TRE-RJ",
        tema |-> "registro", text |-> <<"negou", "-", "se", " ", "provimento">>],
      [ id |-> 3, year |-> 2022, tribunal |-> "TRE-MG",
        tema |-> "propaganda", text |-> <<"pedido", " ", "indeferido">>],
      [ id |-> 4, year |-> 2022, tribunal |-> "TRE-SP",
        tema |-> "propaganda", text |-> <<"pedido", " ", "deferido">>],
      [ id |-> 5, year |-> 2023, tribunal |-> "TRE-RJ",
        tema |-> NoneVal, text |-> <<"autos", " ", "conclusos">>],
      [ id |-> 6, year |-> 0, tribunal |-> "TRE-RJ",
        tema |-> "registro", text |-> <<"defere", "-", "se">>] }

\* the JurisprudenceCase _fetch_relevant_cases builds from one document
MakeCase(doc) ==
    [id |-> doc.id, tribunal |-> doc.tribunal, tema |-> doc.tema,
     decision_type |-> DetectDecisionType(doc.text)]

\* collection.query: every ranking the vector search may return, the
\* documents of the wanted tribunals (all when the filter is None), at most
\* n_results of them, no document twice
QueryResults(tribunal_filter, n_results) ==
    LET docs == IF tribunal_filter = {} THEN stored
                ELSE {d \in stored : d.tribunal \in tribunal_filter}
        len  == Min(n_results, Cardinality(docs))
    IN  {s \in [1..len -> docs] : \A x, y \in 1..len : x # y => s[x] # s[y]}

---------------------------------------------------------------------------
(* The Similarity Matcher *)

\* what the embedding call of _calculate_similarity yields: an error, or two
\* vectors, of which the model keeps their cosine similarity
EmbeddingOutcomes ==
    {[ok |-> FALSE, cos |-> 0]} \cup
    {[ok |-> TRUE, cos |-> c] : c \in {700, 950}}

\* the thresholds of the modelled calls: 0.77, which a boosted 0.70 equals,
\* and 0.95
Thresholds == {770, 950}

\* _calculate_similarity after the embedding call: the boost of 10% for two
\* cases of the same theme, and the clamp to [0, 1]
CalculateSimilarity(case1, case2, cos) ==
    LET boosted == IF Truthy(case1.tema) /\ Truthy(case2.tema)
                      /\ case1.tema = case2.tema
                   THEN Min(One, (cos * 11) \div 10)
                   ELSE cos
    IN  Max(0, Min(One, boosted))

\* a test that only keeps a case from being paired with itself
SameCase(case1, case2) == case1.id = case2.id

\* the test of line 185: only cases of different tribunals are compared
SameTribunal(case1, case2) == case1.tribunal = case2.tribunal

\* the threshold test of line 191
KeepStrict(similarity, thr) == similarity > thr

Keep(similarity, thr) == similarity >= thr

SimilarCase(case1, case2, similarity) ==
    [case1 |-> case1, case2 |-> case2, similarity_score |-> similarity,
     semantic_distance |-> One - similarity]

\* similar_pairs.sort(key=lambda x: x.similarity_score, reverse=True)
SortPairsUnstable(pairs) ==
    Elements(ListSortReverseUnstable(
        [x \in 1..Len(pairs) |-> <<pairs[x].similarity_score, pairs[x]>>]))

SortPairs(pairs) ==
    Elements(ListSortReverse(
        [x \in 1..Len(pairs) |-> <<pairs[x].similarity_score, pairs[x]>>]))

---------------------------------------------------------------------------
(* The Contradiction Classifier *)

\* the gate that accepts every pair of labelled cases
HasOppositeDecisionsAnyLabels(decision1, decision2) ==
    Truthy(decision1) /\ Truthy(decision2)

\* _has_opposite_decisions
HasOppositeDecisions(decision1, decision2) ==
    IF ~Truthy(decision1) \/ ~Truthy(decision2) THEN FALSE
    ELSE {decision1, decision2} \in { {"provido", "nao_provido"},
                                      {"procedente", "improcedente"},
                                      {"deferido", "indeferido"} }

AnalysisKeys ==
    {"is_contradiction", "type", "severity", "explanation", "legal_impact",
     "recommendation"}

\* a parsed JSON object: the keys it holds and their values.  The value of
\* is_contradiction is "True" or "False" for a JSON boolean and "str:false"
\* for the JSON string "false" (a non-empty str, hence true in Python)
JsonObject(keys, is_c, type, severity) ==
    [kind |-> "object", keys |-> keys, is_contradiction |-> is_c,
     type |-> type, severity |-> severity,
     explanation |-> <<"service explanation">>,
     legal_impact |-> "service legal impact",
     recommendation |-> "service recommendation"]

\* what the chat completion call can yield: an error of the call, a content
\* json.loads cannot parse, or a JSON object (response_format asks for one)
AdjudicationOutcomes ==
    { [JsonObject({}, "False", "", "") EXCEPT !.kind = "api_error"],
      [JsonObject({}, "False", "", "") EXCEPT !.kind = "unparsable"],
      JsonObject(AnalysisKeys, "True", "fundamento_diverso", "crítica"),
      JsonObject(AnalysisKeys, "False", "decisao_oposta", "média"),
      JsonObject({}, "False", "", ""),
      JsonObject(AnalysisKeys, "str:false", "decisao_oposta", "alta"),
      JsonObject(AnalysisKeys \ {"type"}, "True", "", "alta"),
      JsonObject(AnalysisKeys, "True", "outro", "extrema") }

\* the truth value Python gives the value of is_contradiction
JsonTruthy(v) == v \notin {"False", "str:"}

\* the dict of the except branch of _ai_contradiction_analysis
FallbackAnalysis(case1, case2) ==
    [kind |-> "object", keys |-> AnalysisKeys, is_contradiction |-> "True",
     type |-> "decisao_oposta", severity |-> "média",
     explanation |-> <<"Decisões opostas detectadas", case1.tribunal, "vs",
                       case2.tribunal>>,
     legal_impact |-> "Possível divergência jurisprudencial entre tribunais",
     recommendation |->
         "Verificar qual entendimento é mais recente e fundamentado"]

\* _ai_contradiction_analysis: the parsed content, whatever it is, and the
\* fallback only when the call or json.loads raised
AiContradictionAnalysis(case1, case2, outcome) ==
    IF outcome.kind \in {"api_error", "unparsable"}
    THEN FallbackAnalysis(case1, case2)
    ELSE outcome

\* lines 264-276 of _check_contradiction: "raise" for the KeyError of a key
\* the dict does not hold, "contradiction" when a Contradiction is built,
\* "none" when None is returned
CheckOutcome(an) ==
    IF "is_contradiction" \notin an.keys THEN "raise"
    ELSE IF ~JsonTruthy(an.is_contradiction) THEN "none"
    ELSE IF AnalysisKeys \subseteq an.keys THEN "contradiction"
    ELSE "raise"

\* a Contradiction that takes the distance of the pair for its similarity
ContradictionByDistance(id, pair, an) ==
    [id |-> id, case1 |-> pair.case1, case2 |-> pair.case2,
     similarity_score |-> pair.semantic_distance,
     contradiction_type |-> an.type,
     contradiction_severity |-> an.severity,
     explanation |-> an.explanation,
     legal_impact |-> an.legal_impact,
     recommended_action |-> an.recommendation]

\* the Contradiction of lines 265-275; id stands for the fresh uuid4
Contradiction(id, pair, an) ==
    [id |-> id, case1 |-> pair.case1, case2 |-> pair.case2,
     similarity_score |-> pair.similarity_score,
     contradiction_type |-> an.type,
     contradiction_severity |-> an.severity,
     explanation |-> an.explanation,
     legal_impact |-> an.legal_impact,
     recommended_action |-> an.recommendation]

---------------------------------------------------------------------------
(* The Cluster Engine *)

\* the theme of lines 364-366 taken from case2 before case1
ThemeOfCase2First(c) ==
    IF Truthy(c.case2.tema) THEN c.case2.tema
    ELSE IF Truthy(c.case1.tema) THEN c.case1.tema
    ELSE ThemeUnspecified

\* lines 364-366: case1.tema or case2.tema or "Tema não especificado"
ThemeOf(c) ==
    IF Truthy(c.case1.tema) THEN c.case1.tema
    ELSE IF Truthy(c.case2.tema) THEN c.case2.tema
    ELSE ThemeUnspecified

\* theme_groups[theme].append(contradiction): theme_groups, a dict, is the
\* sequence of its items in insertion order
AddToGroups(groups, c) ==
    IF \E x \in 1..Len(groups) : groups[x].theme = ThemeOf(c)
    THEN [x \in 1..Len(groups) |->
             IF groups[x].theme = ThemeOf(c)
             THEN [groups[x] EXCEPT !.members = Append(@, c)]
             ELSE groups[x]]
    ELSE Append(groups, [theme |-> ThemeOf(c), members |-> <<c>>])

RECURSIVE GroupByTheme(_)
GroupByTheme(cs) ==
    IF cs = <<>> THEN <<>>
    ELSE AddToGroups(GroupByTheme(SubSeq(cs, 1, Len(cs) - 1)), cs[Len(cs)])

\* a cluster that lists as affected only the tribunals of the first cases
MakeClusterFirstCases(g) ==
    LET cs   == g.members
        sevs == {cs[x].contradiction_severity : x \in 1..Len(cs)}
        tribs == {cs[x].case1.tribunal : x \in 1..Len(cs)}
    IN  [theme |-> g.theme,
         contradictions |-> cs,
         affected_tribunals |-> tribs,
         total_cases |-> Len(cs) * 2,
         severity_distribution |->
             [s \in sevs |-> Cardinality({x \in 1..Len(cs) :
                                 cs[x].contradiction_severity = s})],
         summary |-> <<g.theme, Len(cs), Cardinality(tribs)>>]

\* the ContradictionCluster of lines 372-393; affected_tribunals, a sorted
\* list without duplicates, is the set of its elements
MakeCluster(g) ==
    LET cs   == g.members
        sevs == {cs[x].contradiction_severity : x \in 1..Len(cs)}
        tribs == {cs[x].case1.tribunal : x \in 1..Len(cs)} \cup
                 {cs[x].case2.tribunal : x \in 1..Len(cs)}
    IN  [theme |-> g.theme,
         contradictions |-> cs,
         affected_tribunals |-> tribs,
         total_cases |-> Len(cs) * 2,
         severity_distribution |->
             [s \in sevs |-> Cardinality({x \in 1..Len(cs) :
                                 cs[x].contradiction_severity = s})],
         summary |-> <<g.theme, Len(cs), Cardinality(tribs)>>]

\* clusters.sort(key=lambda x: len(x.contradictions), reverse=True)
SortClustersUnstable(cl) ==
    Elements(ListSortReverseUnstable(
        [x \in 1..Len(cl) |-> <<Len(cl[x].contradictions), cl[x]>>]))

SortClusters(cl) ==
    Elements(ListSortReverse(
        [x \in 1..Len(cl) |-> <<Len(cl[x].contradictions), cl[x]>>]))

\* _cluster_contradictions
ClusterContradictions(cs) ==
    LET groups == GroupByTheme(cs)
    IN  SortClusters([x \in 1..Len(groups) |-> MakeCluster(groups[x])])

---------------------------------------------------------------------------
(* The Alert and Report Assembler *)

Severities == {"baixa", "média", "alta", "crítica"}
Priorities == {"baixa", "média", "alta", "urgente"}

\* priority_order of line 593
priority_order(p) ==
    CASE p = "urgente" -> 0
      [] p = "alta"    -> 1
      [] p = "média"   -> 2
      [] p = "baixa"   -> 3

\* lines 569-573: the priority of a contradiction
PriorityOf(severity) ==
    IF severity \in {"alta", "crítica"}
    THEN (IF severity = "alta" THEN "alta" ELSE "urgente")
    ELSE IF severity = "média" THEN "média"
    ELSE "baixa"

\* the ContradictionAlert of lines 576-588
MakeAlert(c) ==
    [contradiction |-> c,
     priority |-> PriorityOf(c.contradiction_severity),
     message |-> <<c.case1.tribunal, c.case2.tribunal, c.explanation,
                   c.legal_impact>>,
     actionable |-> c.contradiction_severity \in {"alta", "crítica"},
     tribunals_involved |-> <<c.case1.tribunal, c.case2.tribunal>>]

\* the attributes of self that ContradictionAlert.format_alert reads, in
\* the order of its f-string (contradiction_models.py lines 130-147)
FormatAlertReads ==
    <<"priority", "tribunais_involved", "contradiction", "message",
      "created_at">>

\* the attributes a ContradictionAlert has: its fields, created_at by its
\* default
AlertAttributes(alert) == DOMAIN alert \cup {"created_at"}

\* ContradictionAlert.format_alert, as ReportGenerator.format_alert calls
\* it: the text, or the AttributeError of the first attribute read that the
\* alert lacks
FormatAlert(alert) ==
    IF \E x \in 1..Len(FormatAlertReads) :
           FormatAlertReads[x] \notin AlertAttributes(alert)
    THEN [raised |-> TRUE, text |-> <<"AttributeError">>]
    ELSE [raised |-> FALSE,
          text |-> <<alert.priority, alert.contradiction.id>>]

\* a sort by priority_order that turns round the alerts of equal priority
SortAlertsUnstable(al) ==
    Elements(ListSort(Reverse(
        [x \in 1..Len(al) |-> <<priority_order(al[x].priority), al[x]>>])))

\* alerts.sort(key=lambda x: priority_order[x.priority])
SortAlerts(al) ==
    Elements(ListSort(
        [x \in 1..Len(al) |-> <<priority_order(al[x].priority), al[x]>>]))

\* create_alerts: one alert for every contradiction; priority_map is built
\* and never read, and priority_threshold is not read either
CreateAlerts(cs, floor) ==
    SortAlerts([x \in 1..Len(cs) |-> MakeAlert(cs[x])])

NoReport == [returned |-> FALSE]

\* _generate_highlights, each highlight by its kind
GenerateHighlights(cs, cl) ==
    IF cs = <<>> THEN <<"nenhuma contradição crítica">>
    ELSE (IF \E x \in 1..Len(cs) : cs[x].contradiction_severity = "crítica"
          THEN <<"contradições críticas">> ELSE <<>>)
         \o (IF cl # <<>> THEN <<"tema mais problemático">> ELSE <<>>)
         \o <<"tribunal mais divergente">>

\* _generate_recommendations, each recommendation by its kind
GenerateRecommendations(cs, cl) ==
    IF cs = <<>> THEN <<"jurisprudência consistente">>
    ELSE (IF \E x \in 1..Len(cs) : cs[x].contradiction_severity = "crítica"
          THEN <<"urgente">> ELSE <<>>)
         \o (IF cl # <<>> /\ Len(cl[1].contradictions) >= 3
             THEN <<"arguir divergência">> ELSE <<>>)
         \o <<"cite decisões recentes", "monitore recursos">>

\* _calculate_tribunal_statistics, without the rate and the histogram
TribunalStatistics(cas, cs) ==
    LET involved == {cs[x].case1.tribunal : x \in 1..Len(cs)} \cup
                    {cs[x].case2.tribunal : x \in 1..Len(cs)}
        tribs == {cas[x].tribunal : x \in 1..Len(cas)} \cup involved
    IN  [t \in tribs |->
            [total_cases |-> Cardinality({x \in 1..Len(cas) :
                                 cas[x].tribunal = t}),
             contradictions_involved |->
                 Cardinality({x \in 1..Len(cs) : cs[x].case1.tribunal = t})
                 + Cardinality({x \in 1..Len(cs) : cs[x].case2.tribunal = t})]]

\* the ContradictionReport of lines 101-110
MakeReport(cas, cs, cl) ==
    [returned |-> TRUE,
     total_cases_analyzed |-> Len(cas),
     contradictions_found |-> Len(cs),
     clusters |-> cl,
     tribunal_comparison |-> TribunalStatistics(cas, cs),
     highlights |-> GenerateHighlights(cs, cl),
     recommendations |-> GenerateRecommendations(cs, cl)]

\* an empty report that counts no case and has no highlight
CreateEmptyReportSilent(total_cases) ==
    [returned |-> TRUE,
     total_cases_analyzed |-> 0,
     contradictions_found |-> 0,
     clusters |-> <<>>,
     tribunal_comparison |-> <<>>,
     highlights |-> <<>>,
     recommendations |-> <<"consulta mais ampla">>]

\* _create_empty_report
CreateEmptyReport(total_cases) ==
    [returned |-> TRUE,
     total_cases_analyzed |-> total_cases,
     contradictions_found |-> 0,
     clusters |-> <<>>,
     tribunal_comparison |-> <<>>,
     highlights |-> <<"poucos casos encontrados">>,
     recommendations |-> <<"consulta mais ampla">>]

\* ContradictionReport.get_critical_contradictions
RECURSIVE CriticalOf(_)
CriticalOf(cl) ==
    IF cl = <<>> THEN <<>>
    ELSE SelectSeq(cl[1].contradictions,
                   LAMBDA c : c.contradiction_severity = "crítica")
         \o CriticalOf(Tail(cl))

\* the contradictions of every cluster, in the order of the clusters
RECURSIVE AllOf(_)
AllOf(cl) ==
    IF cl = <<>> THEN <<>>
    ELSE cl[1].contradictions \o AllOf(Tail(cl))

---------------------------------------------------------------------------
(* The Trend Engine of src/src/analyzers/change_monitor.py.  A ratio is the *)
(* exact fraction num/den in lowest terms (den > 0); the rounding of the   *)
(* binary floating point of Python is not modelled.                        *)

Abs(x) == IF x < 0 THEN -x ELSE x

RECURSIVE GCD(_, _)
GCD(a, b) == IF b = 0 THEN a ELSE GCD(b, a % b)

\* n / d
Frac(n, d) ==
    LET g == GCD(Abs(n), d)
    IN  [num |-> n \div g, den |-> d \div g]

FAdd(a, b) ==
    LET l == (a.den * b.den) \div GCD(a.den, b.den)
    IN  Frac(a.num * (l \div a.den) + b.num * (l \div b.den), l)

FNeg(a) == [num |-> -a.num, den |-> a.den]

FSub(a, b) == FAdd(a, FNeg(b))

FMul(a, b) == Frac(a.num * b.num, a.den * b.den)

FAbs(a) == [num |-> Abs(a.num), den |-> a.den]

\* a < b
FLess(a, b) == a.num * b.den < b.num * a.den

\* sum(ratios)
RECURSIVE FSum(_)
FSum(ratios) ==
    IF ratios = <<>> THEN Frac(0, 1)
    ELSE FAdd(ratios[1], FSum(Tail(ratios)))

\* MonitoringConfig, the two fields of it that concern the trend engine
MonitoringConfig(change_threshold, min_cases_required) ==
    [change_threshold |-> change_threshold,
     min_cases_required |-> min_cases_required]

\* change_threshold: float = 0.20
DefaultChangeThreshold == Frac(20, 100)

\* min_cases_required: int = 5
DefaultMinCasesRequired == 5

\* the regular expressions of _detect_decision, each the set of its
\* alternatives as in decision_patterns
favorable_patterns ==
    << { <<{"provido", "provida"}>> },
       { <<{"deferido", "deferida"}>> },
       { <<{"procedente"}>> },
       { <<AcolhWords>> } >>

unfavorable_patterns ==
    << { <<{"não", "nao"}, {"-", " "}, {"provido", "provida"}>> },
       { <<{"indeferido", "indeferida"}>> },
       { <<{"improcedente"}>> },
       { <<RejeitWords>> } >>

\* one of the patterns of the list is found in the text
AnyPatternFound(patterns, t) ==
    \E x \in 1..Len(patterns) : \E alt \in patterns[x] : AltFound(alt, t)

\* _detect_decision: the favorable patterns are tried first
DetectDecision(t) ==
    IF AnyPatternFound(favorable_patterns, t) THEN "favorável"
    ELSE IF AnyPatternFound(unfavorable_patterns, t) THEN "desfavorável"
    ELSE "neutro"

\* the keys of a dict filled in the order of keys: each once, in the
\* order of its first occurrence
KeysInOrder(keys) ==
    LET F[n \in 0..Len(keys)] ==
            IF n = 0 THEN <<>>
            ELSE IF \E y \in 1..(n - 1) : keys[y] = keys[n] THEN F[n - 1]
            ELSE Append(F[n - 1], keys[n])
    IN  F[Len(keys)]

\* the list a defaultdict(list) holds under key when items[x] was appended
\* under keys[x], x ascending
ListUnder(key, items, keys) ==
    LET F[n \in 0..Len(items)] ==
            IF n = 0 THEN <<>>
            ELSE IF keys[n] = key THEN Append(F[n - 1], items[n])
            ELSE F[n - 1]
    IN  F[Len(items)]

\* lines 124-144: the case_data of the documents of the query result that
\* carry a year, in the order of the result
CaseData(results) ==
    LET dated == SelectSeq(results, LAMBDA d : d.year # 0)
    IN  [x \in 1..Len(dated) |->
            [id |-> dated[x].id, tribunal |-> dated[x].tribunal,
             year |-> dated[x].year,
             decision_type |-> DetectDecision(dated[x].text)]]

\* lines 186-191 on the cases_by_period of lines 122-146: period by period
\* and case by case, cases_by_tribunal[tribunal][period] gets the case
CasesByTribunal(results) ==
    LET case_data == CaseData(results)
        years == [x \in 1..Len(case_data) |-> case_data[x].year]
        periods == KeysInOrder(years)
        RECURSIVE Flat(_)
        Flat(n) == IF n = 0 THEN <<>>
                   ELSE Flat(n - 1) \o ListUnder(periods[n], case_data, years)
        flat == Flat(Len(periods))
        tribs == [x \in 1..Len(flat) |-> flat[x].tribunal]
        tribunals == KeysInOrder(tribs)
    IN  [t \in 1..Len(tribunals) |->
            LET mine == ListUnder(tribunals[t], flat, tribs)
                myYears == [x \in 1..Len(mine) |-> mine[x].year]
                myPeriods == KeysInOrder(myYears)
            IN  [tribunal |-> tribunals[t],
                 periods |->
                     [q \in 1..Len(myPeriods) |->
                         [period |-> myPeriods[q],
                          cases |-> [x \in 1..Len(ListUnder(myPeriods[q],
                                                    mine, myYears)) |->
                              [id |-> ListUnder(myPeriods[q], mine,
                                                myYears)[x].id,
                               decision_type |->
                                   ListUnder(myPeriods[q], mine,
                                             myYears)[x].decision_type]]]]]]

\* sorted(periods.keys()): the periods of one tribunal in the order of
\* their keys (the key "<year>-S1" is kept as the year)
SortedPeriods(periods) ==
    Elements(ListSort(
        [x \in 1..Len(periods) |-> <<periods[x].period, periods[x]>>]))

\* lines 220-222: favorable / total
FavorableRatio(bucket) ==
    LET favorable == Cardinality({x \in 1..Len(bucket) :
                         bucket[x].decision_type = "favorável"})
        total == Len(bucket)
    IN  IF total > 0 THEN Frac(favorable, total) ELSE Frac(0, 1)

\* the TrendPoint of lines 227-232 (its date is the time of the call)
TrendPoint(bucket) ==
    [favorable_ratio |-> FavorableRatio(bucket),
     total_cases |-> Len(bucket),
     representative_case |-> bucket[1].id]

\* line 217: the buckets that count
EnoughCases(p) == ~(Len(p.cases) < 3)

\* a direction from halves split after the middle element
DetermineTrendDirectionLateSplit(ratios) ==
    IF Len(ratios) < 2 THEN "estável"
    ELSE LET n == Len(ratios)
             half == (n + 1) \div 2
             first_half == FMul(FSum(SubSeq(ratios, 1, half)),
                                Frac(1, half))
             second_half == FMul(FSum(SubSeq(ratios, half + 1, n)),
                                 Frac(1, n - half))
             diff == FSub(second_half, first_half)
         IN  IF FLess(FAbs(diff), Frac(1, 10)) THEN "estável"
             ELSE IF FLess(Frac(2, 10), diff) THEN "crescente"
             ELSE IF FLess(diff, Frac(-2, 10)) THEN "decrescente"
             ELSE "volátil"

\* _determine_trend_direction
DetermineTrendDirection(ratios) ==
    IF Len(ratios) < 2 THEN "estável"
    ELSE LET n == Len(ratios)
             half == n \div 2
             first_half == FMul(FSum(SubSeq(ratios, 1, half)),
                                Frac(1, half))
             second_half == FMul(FSum(SubSeq(ratios, half + 1, n)),
                                 Frac(1, n - half))
             diff == FSub(second_half, first_half)
         IN  IF FLess(FAbs(diff), Frac(1, 10)) THEN "estável"
             ELSE IF FLess(Frac(2, 10), diff) THEN "crescente"
             ELSE IF FLess(diff, Frac(-2, 10)) THEN "decrescente"
             ELSE "volátil"

\* _calculate_volatility without its last step: the variance, of which the
\* volatility is the square root
Variance(ratios) ==
    IF Len(ratios) < 2 THEN Frac(0, 1)
    ELSE LET mean == FMul(FSum(ratios), Frac(1, Len(ratios)))
             squares == [x \in 1..Len(ratios) |->
                            FMul(FSub(ratios[x], mean),
                                 FSub(ratios[x], mean))]
         IN  FMul(FSum(squares), Frac(1, Len(ratios)))

\* volatility > bound, for a bound that is not negative:
\* variance ** 0.5 > bound if and only if variance > bound * bound
VolatilityAbove(variance, bound) == FLess(FMul(bound, bound), variance)

\* sum(p.total_cases for p in trend_points)
RECURSIVE TotalCases(_)
TotalCases(points) ==
    IF points = <<>> THEN 0
    ELSE points[1].total_cases + TotalCases(Tail(points))

\* _calculate_trend returned None
NoTrend == [is_none |-> TRUE]

\* a _calculate_trend that keeps the points of the tribunal on the
\* instance and extends them on every run
CalculateTrendAccumulating(tribunal, periods) ==
    LET counted == SelectSeq(SortedPeriods(periods), EnoughCases)
        kept == SelectSeq(trends, LAMBDA t : t.tribunal = tribunal)
        remembered == IF kept = <<>> THEN <<>> ELSE kept[1].trend_points
        trend_points == remembered \o
                        [x \in 1..Len(counted) |->
                            TrendPoint(counted[x].cases)]
        favorable_ratios == [x \in 1..Len(trend_points) |->
                                trend_points[x].favorable_ratio]
        n == Len(favorable_ratios)
    IN  IF periods = <<>> \/ trend_points = <<>> THEN NoTrend
        ELSE [is_none |-> FALSE,
              tribunal |-> tribunal,
              trend_points |-> trend_points,
              overall_trend |-> DetermineTrendDirection(favorable_ratios),
              trend_strength |->
                  IF n > 1
                  THEN FAbs(FSub(favorable_ratios[n], favorable_ratios[1]))
                  ELSE Frac(0, 1),
              variance |-> Variance(favorable_ratios),
              total_cases_analyzed |-> TotalCases(trend_points)]

\* _calculate_trend: the TrendAnalysis of one tribunal
CalculateTrend(tribunal, periods) ==
    LET counted == SelectSeq(SortedPeriods(periods), EnoughCases)
        trend_points == [x \in 1..Len(counted) |->
                            TrendPoint(counted[x].cases)]
        favorable_ratios == [x \in 1..Len(counted) |->
                                trend_points[x].favorable_ratio]
        n == Len(favorable_ratios)
    IN  IF periods = <<>> \/ trend_points = <<>> THEN NoTrend
        ELSE [is_none |-> FALSE,
              tribunal |-> tribunal,
              trend_points |-> trend_points,
              overall_trend |-> DetermineTrendDirection(favorable_ratios),
              trend_strength |->
                  IF n > 1
                  THEN FAbs(FSub(favorable_ratios[n], favorable_ratios[1]))
                  ELSE Frac(0, 1),
              variance |-> Variance(favorable_ratios),
              total_cases_analyzed |-> TotalCases(trend_points)]

\* _analyze_trends from line 194 on: the trends of the tribunals of
\* cases_by_tribunal that have one, in the order of the dict
AnalyzeTrends(cbt) ==
    SelectSeq([x \in 1..Len(cbt) |->
                  CalculateTrend(cbt[x].tribunal, cbt[x].periods)],
              LAMBDA t : ~t.is_none)

\* what the chat completion of _ai_analyze_change may do: fail, answer
\* the JSON object {} or answer an object with the three keys
AiChangeOutcomes == {"error", "empty_object", "object"}

\* _ai_analyze_change: explanation, impact and recommendation by their kind
AiAnalyzeChange(change_type, outcome) ==
    CASE outcome = "error" ->
             <<<<"fallback", change_type>>, "fallback", "fallback">>
      [] outcome = "empty_object" -> <<"default", "default", "default">>
      [] outcome = "object" -> <<"answer", "answer", "answer">>

\* a table that tries the row of endurecimento before that of
\* inversão_total
ChangeTypeAndSeverityTighteningFirst(variance, before_ratio, after_ratio) ==
    IF FLess(after_ratio, FSub(before_ratio, Frac(3, 10)))
    THEN <<"endurecimento", "alta">>
    ELSE IF FLess(Frac(7, 10), before_ratio)
            /\ FLess(after_ratio, Frac(3, 10))
    THEN <<"inversão_total", "crítica">>
    ELSE IF FLess(FAdd(before_ratio, Frac(3, 10)), after_ratio)
    THEN <<"flexibilização", "alta">>
    ELSE IF VolatilityAbove(variance, Frac(3, 10))
    THEN <<"divergência", "média">>
    ELSE <<"consolidação", "baixa">>

\* lines 322-336: the change type and the severity
ChangeTypeAndSeverity(variance, before_ratio, after_ratio) ==
    IF FLess(Frac(7, 10), before_ratio) /\ FLess(after_ratio, Frac(3, 10))
    THEN <<"inversão_total", "crítica">>
    ELSE IF FLess(after_ratio, FSub(before_ratio, Frac(3, 10)))
    THEN <<"endurecimento", "alta">>
    ELSE IF FLess(FAdd(before_ratio, Frac(3, 10)), after_ratio)
    THEN <<"flexibilização", "alta">>
    ELSE IF VolatilityAbove(variance, Frac(3, 10))
    THEN <<"divergência", "média">>
    ELSE <<"consolidação", "baixa">>

\* the evidence ratio (before + after) / 20 without the cap
ConfidenceUncapped(before_cases, after_cases) ==
    Frac(before_cases + after_cases, 20)

\* min(1.0, (before.total_cases + after.total_cases) / 20)
Confidence(before_cases, after_cases) ==
    LET evidence == Frac(before_cases + after_cases, 20)
    IN  IF FLess(Frac(1, 1), evidence) THEN Frac(1, 1) ELSE evidence

\* _analyze_change: the ChangeDetection (its id is a fresh uuid, here the
\* position of the trend)
AnalyzeChange(id, trend, before, after, outcome) ==
    LET ts == ChangeTypeAndSeverity(trend.variance, before.favorable_ratio,
                                    after.favorable_ratio)
        ai == AiAnalyzeChange(ts[1], outcome)
    IN  [id |-> id,
         tribunal |-> trend.tribunal,
         change_type |-> ts[1],
         severity |-> ts[2],
         before_ratio |-> before.favorable_ratio,
         before_cases |-> before.total_cases,
         after_ratio |-> after.favorable_ratio,
         after_cases |-> after.total_cases,
         change_magnitude |->
             FAbs(FSub(after.favorable_ratio, before.favorable_ratio)),
         confidence |-> Confidence(before.total_cases, after.total_cases),
         explanation |-> ai[1],
         impact_assessment |-> ai[2],
         recommended_action |-> ai[3]]

\* the trend has two points and its first and last ratio differ by more
\* than the threshold
SignificantAbove(trend, change_threshold) ==
    /\ ~(Len(trend.trend_points) < 2)
    /\ FLess(change_threshold,
             FAbs(FSub(trend.trend_points[Len(trend.trend_points)]
                           .favorable_ratio,
                       trend.trend_points[1].favorable_ratio)))

\* lines 294-304: the trend has two points and its first and last ratio
\* differ by the threshold or more
Significant(trend, change_threshold) ==
    /\ ~(Len(trend.trend_points) < 2)
    /\ ~FLess(FAbs(FSub(trend.trend_points[Len(trend.trend_points)]
                            .favorable_ratio,
                        trend.trend_points[1].favorable_ratio)),
              change_threshold)

\* a _detect_changes that compares with the default threshold whatever the
\* configuration
DetectChangesDefaultThreshold(trs, change_threshold, ai) ==
    LET found == SelectSeq([x \in 1..Len(trs) |-> x],
                           LAMBDA x : Significant(trs[x],
                                                  DefaultChangeThreshold))
    IN  [y \in 1..Len(found) |->
            AnalyzeChange(found[y], trs[found[y]],
                          trs[found[y]].trend_points[1],
                          trs[found[y]].trend_points[
                              Len(trs[found[y]].trend_points)],
                          ai[found[y]])]

\* _detect_changes; ai[x] is what the chat completion does for trend x
DetectChanges(trs, change_threshold, ai) ==
    LET found == SelectSeq([x \in 1..Len(trs) |-> x],
                           LAMBDA x : Significant(trs[x], change_threshold))
    IN  [y \in 1..Len(found) |->
            AnalyzeChange(found[y], trs[found[y]],
                          trs[found[y]].trend_points[1],
                          trs[found[y]].trend_points[
                              Len(trs[found[y]].trend_points)],
                          ai[found[y]])]

\* a priority that takes média for baixa
DetermineAlertPriorityLow(change) ==
    IF change.severity = "crítica" THEN "urgente"
    ELSE IF change.severity = "alta" THEN "alta"
    ELSE "baixa"

\* _determine_alert_priority
DetermineAlertPriority(change) ==
    IF change.severity = "crítica" THEN "urgente"
    ELSE IF change.severity = "alta" THEN "alta"
    ELSE IF change.severity = "média" THEN "média"
    ELSE "baixa"

\* _generate_strategies, each strategy by its kind
GenerateStrategies(change) ==
    (CASE change.change_type = "inversão_total" ->
              <<"revisar estratégia", "buscar precedentes">>
       [] change.change_type = "endurecimento" ->
              <<"reforçar fundamentação", "teses alternativas">>
       [] change.change_type = "flexibilização" ->
              <<"aproveitar tendência", "citar precedentes">>
       [] OTHER -> <<>>)
    \o <<change.recommended_action>>

\* the MonitoringAlert of lines 422-432
MonitoringAlert(change) ==
    [change |-> change,
     priority |-> DetermineAlertPriority(change),
     alert_type |-> "mudança_detectada",
     message |-> change.change_type,
     actionable |-> change.severity \in {"alta", "crítica"},
     affected_areas |-> <<"theme">>,
     suggested_strategies |-> GenerateStrategies(change)]

\* _generate_alerts
GenerateAlerts(chs) ==
    SortAlerts([x \in 1..Len(chs) |-> MonitoringAlert(chs[x])])

---------------------------------------------------------------------------
(* The state machine *)

NoAnalysis == [JsonObject({}, "False", "", "") EXCEPT !.kind = "none"]

\* the filters of the modelled calls: None, two tribunals of the
\* collection, and a code no document carries
TribunalFilters == {{}, {"TRE-SP", "TRE-MG"}, {"TRE-XX"}}

\* the arguments of one call of detect_contradictions (the query is not
\* modelled: QueryResults gives every ranking)
Call(similarity_threshold, max_cases, tribunal_filter) ==
    [similarity_threshold |-> similarity_threshold,
     max_cases |-> max_cases,
     tribunal_filter |-> tribunal_filter]

\* no call of detect_contradictions
NoCall == Call(0, 0, {})

\* the calls with a threshold in [0,1]
Calls ==
    {Call(thr, n, f) : thr \in Thresholds, n \in 1..MaxCases,
                       f \in TribunalFilters}

\* the taggers have tagged nothing
TaggerIdle == document = <<>> /\ decision_type = NoneVal /\ decision = NoneVal

\* the monitor after __init__ without a config, before any call
MonitorIdle ==
    /\ config = MonitoringConfig(DefaultChangeThreshold,
                                DefaultMinCasesRequired)
    /\ cases_by_tribunal = <<>> /\ trends = <<>> /\ changes = <<>>
    /\ monitorAlerts = <<>> /\ earlierTrends = <<>>

Idle ==
    /\ cases = <<>> /\ threshold = 0 /\ i = 0 /\ j = 0
    /\ similar_pairs = <<>> /\ simLog = <<>> /\ k = 0
    /\ analysis = NoAnalysis /\ adjLog = <<>> /\ contradictions = <<>>
    /\ clusters = <<>> /\ report = NoReport /\ alertInput = <<>>
    /\ priority_threshold = "média" /\ alerts = <<>>

\* the detector after __init__, and the arguments of the call to come
Init ==
    /\ pc = "idle" /\ Idle /\ call \in Calls /\ TaggerIdle /\ MonitorIdle
    /\ stored = collection

\* detect_contradictions, lines 73-79: the retrieval (the embedding of the
\* query may raise) and the early return on fewer than 2 cases
Fetch ==
    /\ pc = "idle"
    /\ \E ok \in BOOLEAN :
        IF ~ok
        THEN /\ pc' = "raised"
             /\ UNCHANGED <<cases, threshold, i, j, report>>
        ELSE \E res \in QueryResults(call.tribunal_filter, call.max_cases) :
             /\ cases' = [x \in 1..Len(res) |-> MakeCase(res[x])]
             /\ threshold' = call.similarity_threshold
             /\ IF Len(res) < 2
                THEN /\ report' = CreateEmptyReport(Len(res))
                     /\ pc' = "done"
                     /\ UNCHANGED <<i, j>>
                ELSE /\ pc' = "pairs"
                     /\ i' = 1 /\ j' = 2
                     /\ UNCHANGED report
    /\ UNCHANGED <<similar_pairs, simLog, k, analysis, adjLog,
                   contradictions, clusters, alertInput, priority_threshold,
                   alerts>>
    /\ UNCHANGED <<call, stored, taggerVars, monitorVars>>

\* the loops of lines 182-183 have examined every pair
LoopDone == i >= Len(cases)

\* _find_similar_pairs, lines 182-197, for the pair at positions i < j
PairStep ==
    /\ pc = "pairs" /\ ~LoopDone
    /\ \E e \in EmbeddingOutcomes :
        LET case1 == cases[i]
            case2 == cases[j]
            sim   == CalculateSimilarity(case1, case2, e.cos)
            advance == IF j < Len(cases) THEN i' = i /\ j' = j + 1
                       ELSE i' = i + 1 /\ j' = i + 2
        IN  IF SameTribunal(case1, case2)
            THEN /\ advance
                 /\ UNCHANGED <<pc, similar_pairs, simLog>>
            ELSE IF ~e.ok
            THEN /\ pc' = "raised"
                 /\ UNCHANGED <<i, j, similar_pairs, simLog>>
            ELSE /\ advance
                 /\ simLog' = Append(simLog, [i |-> i, j |-> j, sim |-> sim])
                 /\ similar_pairs' =
                        IF Keep(sim, threshold)
                        THEN Append(similar_pairs,
                                    SimilarCase(case1, case2, sim))
                        ELSE similar_pairs
                 /\ UNCHANGED pc
    /\ UNCHANGED <<cases, threshold, k, analysis, adjLog, contradictions,
                   clusters, report, alertInput, priority_threshold, alerts>>
    /\ UNCHANGED <<call, stored, taggerVars, monitorVars>>

\* _find_similar_pairs, lines 199-202: the sort and the return
FindPairsReturn ==
    /\ pc = "pairs" /\ LoopDone
    /\ similar_pairs' = SortPairs(similar_pairs)
    /\ pc' = "analyze"
    /\ k' = 1
    /\ UNCHANGED <<cases, threshold, i, j, simLog, analysis, adjLog,
                   contradictions, clusters, report, alertInput,
                   priority_threshold, alerts>>
    /\ UNCHANGED <<call, stored, taggerVars, monitorVars>>

\* _check_contradiction, line 260: the gate on the labels of pair k
GateStep ==
    /\ pc = "analyze" /\ k <= Len(similar_pairs)
    /\ IF HasOppositeDecisions(similar_pairs[k].case1.decision_type,
                               similar_pairs[k].case2.decision_type)
       THEN pc' = "adjudicate" /\ k' = k
       ELSE pc' = pc /\ k' = k + 1
    /\ UNCHANGED <<cases, threshold, i, j, similar_pairs, simLog, analysis,
                   adjLog, contradictions, clusters, report, alertInput,
                   priority_threshold, alerts>>
    /\ UNCHANGED <<call, stored, taggerVars, monitorVars>>

\* _check_contradiction, line 262: the call of _ai_contradiction_analysis
AdjudicateStep ==
    /\ pc = "adjudicate"
    /\ \E o \in AdjudicationOutcomes :
        /\ analysis' = AiContradictionAnalysis(similar_pairs[k].case1,
                                               similar_pairs[k].case2, o)
        /\ adjLog' = Append(adjLog,
               [pair |-> k, outcome |-> o,
                analysis |-> AiContradictionAnalysis(
                    similar_pairs[k].case1, similar_pairs[k].case2, o)])
    /\ pc' = "build"
    /\ UNCHANGED <<cases, threshold, i, j, similar_pairs, simLog, k,
                   contradictions, clusters, report, alertInput,
                   priority_threshold, alerts>>
    /\ UNCHANGED <<call, stored, taggerVars, monitorVars>>

\* _check_contradiction, lines 264-278, and lines 246-247 of
\* _analyze_contradictions
BuildStep ==
    /\ pc = "build"
    /\ IF CheckOutcome(analysis) = "raise"
       THEN pc' = "raised" /\ UNCHANGED <<k, contradictions>>
       ELSE /\ pc' = "analyze"
            /\ k' = k + 1
            /\ contradictions' =
                   IF CheckOutcome(analysis) = "contradiction"
                   THEN Append(contradictions,
                               Contradiction(Len(contradictions) + 1,
                                             similar_pairs[k], analysis))
                   ELSE contradictions
    /\ UNCHANGED <<cases, threshold, i, j, similar_pairs, simLog, analysis,
                   adjLog, clusters, report, alertInput, priority_threshold,
                   alerts>>
    /\ UNCHANGED <<call, stored, taggerVars, monitorVars>>

\* _analyze_contradictions returns: detect_contradictions goes on to line 90
AnalyzeReturn ==
    /\ pc = "analyze" /\ k > Len(similar_pairs)
    /\ pc' = "cluster_call"
    /\ UNCHANGED <<cases, threshold, i, j, similar_pairs, simLog, k, analysis,
                   adjLog, contradictions, clusters, report, alertInput,
                   priority_threshold, alerts>>
    /\ UNCHANGED <<call, stored, taggerVars, monitorVars>>

\* _cluster_contradictions(contradictions)
ClusterCall ==
    /\ pc = "cluster_call"
    /\ clusters' = ClusterContradictions(contradictions)
    /\ pc' = "cluster_done"
    /\ UNCHANGED <<cases, threshold, i, j, similar_pairs, simLog, k, analysis,
                   adjLog, contradictions, report, alertInput,
                   priority_threshold, alerts>>
    /\ UNCHANGED <<call, stored, taggerVars, monitorVars>>

\* detect_contradictions, lines 93-113: the report
BuildReport ==
    /\ pc = "cluster_done"
    /\ report' = MakeReport(cases, contradictions, clusters)
    /\ pc' = "done"
    /\ UNCHANGED <<cases, threshold, i, j, similar_pairs, simLog, k, analysis,
                   adjLog, contradictions, clusters, alertInput,
                   priority_threshold, alerts>>
    /\ UNCHANGED <<call, stored, taggerVars, monitorVars>>

\* the callers of create_alerts: main.py, lines 192-198, hands it the
\* critical contradictions of the report with "alta"; the example of
\* examples/exemplo_detector_contradicoes.py hands it all of them with
\* "média"
CallerPicksAlerts ==
    /\ pc = "done"
    /\ \E main \in BOOLEAN :
        IF main
        THEN /\ CriticalOf(report.clusters) # <<>>
             /\ alertInput' = CriticalOf(report.clusters)
             /\ priority_threshold' = "alta"
        ELSE /\ report.contradictions_found > 0
             /\ alertInput' = AllOf(report.clusters)
             /\ priority_threshold' = "média"
    /\ pc' = "alerts_call"
    /\ UNCHANGED <<cases, threshold, i, j, similar_pairs, simLog, k, analysis,
                   adjLog, contradictions, clusters, report, alerts>>
    /\ UNCHANGED <<call, stored, taggerVars, monitorVars>>

\* create_alerts(alertInput, priority_threshold)
AlertsCall ==
    /\ pc = "alerts_call"
    /\ alerts' = CreateAlerts(alertInput, priority_threshold)
    /\ pc' = "alerted"
    /\ UNCHANGED <<cases, threshold, i, j, similar_pairs, simLog, k, analysis,
                   adjLog, contradictions, clusters, report, alertInput,
                   priority_threshold>>
    /\ UNCHANGED <<call, stored, taggerVars, monitorVars>>

\* the callers print the first alerts: main.py the first three, the
\* example the first two of priority alta or urgente
FormatAlertsCall ==
    /\ pc = "alerted"
    /\ LET high == SelectSeq(alerts,
                             LAMBDA a : a.priority \in {"alta", "urgente"})
           shown == IF priority_threshold = "alta"
                    THEN SubSeq(alerts, 1, Min(3, Len(alerts)))
                    ELSE SubSeq(high, 1, Min(2, Len(high)))
       IN  pc' = IF \E x \in 1..Len(shown) : FormatAlert(shown[x]).raised
                 THEN "format_raised"
                 ELSE "formatted"
    /\ UNCHANGED <<cases, threshold, i, j, similar_pairs, simLog, k, analysis,
                   adjLog, contradictions, clusters, report, alertInput,
                   priority_threshold, alerts>>
    /\ UNCHANGED <<call, stored, taggerVars, monitorVars>>

Next ==
    \/ Fetch
    \/ PairStep
    \/ FindPairsReturn
    \/ GateStep
    \/ AdjudicateStep
    \/ BuildStep
    \/ AnalyzeReturn
    \/ ClusterCall
    \/ BuildReport
    \/ CallerPicksAlerts
    \/ AlertsCall
    \/ FormatAlertsCall

\* one call of detect_contradictions and the alerts its callers ask for
Spec == Init /\ [][Next]_vars

---------------------------------------------------------------------------
(* _cluster_contradictions on its own, on every list of contradictions up  *)
(* to MaxClusterInput: contradiction x of the list is between a case of    *)
(* TRE-SP and a case of TRE-RJ with opposite labels; the theme of case1 is  *)
(* any of Temas1 and that of case2 any of Temas2.                          *)

Temas1 == {NoneVal, "", "registro", "propaganda"}
Temas2 == {NoneVal, "", "registro"}

InputContradiction(x, tema1, tema2, severity) ==
    LET case1 == [id |-> 2 * x - 1, tribunal |-> "TRE-SP", tema |-> tema1,
                  decision_type |-> "provido"]
        case2 == [id |-> 2 * x, tribunal |-> "TRE-RJ", tema |-> tema2,
                  decision_type |-> "nao_provido"]
    IN  Contradiction(x, SimilarCase(case1, case2, 950),
                      [FallbackAnalysis(case1, case2)
                          EXCEPT !.severity = severity])

\* the contradiction list of one theme assignment
ClusterInput(t) ==
    [x \in 1..Len(t) |-> InputContradiction(x, t[x][1], t[x][2], "média")]

InitCluster ==
    /\ pc = "cluster_call"
    /\ \E n \in 0..MaxClusterInput :
           \E t \in [1..n -> Temas1 \X Temas2] :
               contradictions = ClusterInput(t)
    /\ cases = <<>> /\ threshold = 0 /\ i = 0 /\ j = 0
    /\ similar_pairs = <<>> /\ simLog = <<>> /\ k = 0
    /\ analysis = NoAnalysis /\ adjLog = <<>>
    /\ clusters = <<>> /\ report = NoReport /\ alertInput = <<>>
    /\ priority_threshold = "média" /\ alerts = <<>>
    /\ call = NoCall /\ TaggerIdle /\ MonitorIdle /\ stored = collection

NextCluster == ClusterCall

SpecCluster == InitCluster /\ [][NextCluster]_vars

---------------------------------------------------------------------------
(* create_alerts on its own, on every list of contradictions up to         *)
(* MaxAlertInput, of any severity a Contradiction can carry (its severity  *)
(* is whatever the adjudication returned), and every priority_threshold.   *)

\* the contradiction list of one severity assignment
AlertInput(sv) ==
    [x \in 1..Len(sv) |-> InputContradiction(x, "registro", "registro", sv[x])]

InitAlerts ==
    /\ pc = "alerts_call"
    /\ \E n \in 0..MaxAlertInput :
           \E sv \in [1..n -> Severities \cup {"extrema"}] :
               alertInput = AlertInput(sv)
    /\ priority_threshold \in Priorities
    /\ cases = <<>> /\ threshold = 0 /\ i = 0 /\ j = 0
    /\ similar_pairs = <<>> /\ simLog = <<>> /\ k = 0
    /\ analysis = NoAnalysis /\ adjLog = <<>> /\ contradictions = <<>>
    /\ clusters = <<>> /\ report = NoReport /\ alerts = <<>>
    /\ call = NoCall /\ TaggerIdle /\ MonitorIdle /\ stored = collection

\* _generate_alerts on its own, on every list of changes up to
\* MaxAlertInput, of any severity _analyze_change gives: a trend variance
\* and two ratios that give the severity
SeverityExample(severity) ==
    CASE severity = "crítica" ->
             [variance |-> Frac(0, 1), before |-> Frac(4, 5),
              after |-> Frac(1, 5)]
      [] severity = "alta" ->
             [variance |-> Frac(0, 1), before |-> Frac(3, 5),
              after |-> Frac(1, 5)]
      [] severity = "média" ->
             [variance |-> Frac(1, 5), before |-> Frac(1, 4),
              after |-> Frac(1, 2)]
      [] severity = "baixa" ->
             [variance |-> Frac(0, 1), before |-> Frac(1, 4),
              after |-> Frac(1, 2)]

\* the ChangeDetection _analyze_change builds for an example of the severity
InputChange(x, severity) ==
    LET e == SeverityExample(severity)
    IN  AnalyzeChange(x, [tribunal |-> "TRE-MG", variance |-> e.variance],
                      [favorable_ratio |-> e.before, total_cases |-> 4],
                      [favorable_ratio |-> e.after, total_cases |-> 4],
                      "error")

\* the change list of one severity assignment
ChangeInput(sv) == [x \in 1..Len(sv) |-> InputChange(x, sv[x])]

InitMonitorAlerts ==
    /\ pc = "monitor_alerts_call"
    /\ \E n \in 0..MaxAlertInput :
           \E sv \in [1..n -> Severities] : changes = ChangeInput(sv)
    /\ Idle /\ call = NoCall /\ TaggerIdle /\ stored = collection
    /\ config = MonitoringConfig(DefaultChangeThreshold,
                                DefaultMinCasesRequired)
    /\ cases_by_tribunal = <<>> /\ trends = <<>> /\ monitorAlerts = <<>>
    /\ earlierTrends = <<>>

\* _generate_alerts(changes)
GenerateAlertsCall ==
    /\ pc = "monitor_alerts_call"
    /\ monitorAlerts' = GenerateAlerts(changes)
    /\ pc' = "monitored"
    /\ UNCHANGED <<cases, threshold, i, j, similar_pairs, simLog, k, analysis,
                   adjLog, contradictions, clusters, report, alertInput,
                   priority_threshold, alerts, call>>
    /\ UNCHANGED <<stored, taggerVars, config, cases_by_tribunal, trends, changes,
                   earlierTrends>>

NextAlerts == AlertsCall \/ GenerateAlertsCall

\* the two alert builders, each on its own inputs
SpecAlerts == (InitAlerts \/ InitMonitorAlerts) /\ [][NextAlerts]_vars

---------------------------------------------------------------------------
(* monitor_theme from line 70 on, on the history of one tribunal: every    *)
(* series of up to MaxPeriods periods, each either of 2 cases (one of them *)
(* favorável) or of a number of cases of BucketSizes of which none, all,   *)
(* all but one, or one of four are tagged favorável (the ratios 0, 1/4,    *)
(* 2/3, 3/4 and 1), found latest period first; with or without a second    *)
(* tribunal whose history is ExampleHistory.                               *)

BucketSizes == {3, 4}

\* the cases of one period: the first `favorable' of them are favorável
Bucket(favorable, total) ==
    [x \in 1..total |->
        [id |-> x,
         decision_type |-> IF x <= favorable THEN "favorável"
                           ELSE IF x % 2 = 0 THEN "desfavorável"
                           ELSE "neutro"]]

\* the pairs <<favorable, total>> of the buckets drawn
BucketShapes ==
    {<<1, 2>>, <<1, 4>>} \cup
    UNION {{<<0, t>>, <<t - 1, t>>, <<t, t>>} : t \in BucketSizes}

\* the periods of one tribunal, the latest first
History(shapes) ==
    [x \in 1..Len(shapes) |->
        [period |-> 2025 - x, cases |-> Bucket(shapes[x][1], shapes[x][2])]]

\* a history of ratios 0.8, 0.75, 0.2 and 0.15, the earliest period first
ExampleHistory ==
    << [period |-> 2021, cases |-> Bucket(4, 5)],
       [period |-> 2022, cases |-> Bucket(3, 4)],
       [period |-> 2023, cases |-> Bucket(1, 5)],
       [period |-> 2024, cases |-> Bucket(3, 20)] >>

\* the configurations of the modelled monitors: the default one, one with
\* both fields given and one with a threshold above 0.30
Configs ==
    {MonitoringConfig(DefaultChangeThreshold, DefaultMinCasesRequired),
     MonitoringConfig(Frac(25, 100), 3),
     MonitoringConfig(Frac(35, 100), DefaultMinCasesRequired)}

InitMonitor ==
    /\ pc = "trends_call"
    /\ config \in Configs
    /\ \E n \in 1..MaxPeriods, example \in BOOLEAN :
           \E shapes \in [1..n -> BucketShapes] :
               cases_by_tribunal =
                   <<[tribunal |-> "TRE-MG", periods |-> History(shapes)]>>
                   \o (IF example
                       THEN <<[tribunal |-> "TRE-RJ",
                               periods |-> ExampleHistory]>>
                       ELSE <<>>)
    /\ trends = <<>> /\ changes = <<>> /\ monitorAlerts = <<>>
    /\ earlierTrends = <<>>
    /\ Idle /\ call = NoCall /\ TaggerIdle /\ stored = collection

\* _analyze_trends(cases_by_period, theme, tribunals)
AnalyzeTrendsCall ==
    /\ pc = "trends_call"
    /\ trends' = AnalyzeTrends(cases_by_tribunal)
    /\ pc' = "changes_call"
    /\ UNCHANGED <<cases, threshold, i, j, similar_pairs, simLog, k, analysis,
                   adjLog, contradictions, clusters, report, alertInput,
                   priority_threshold, alerts, call>>
    /\ UNCHANGED <<stored, taggerVars, config, cases_by_tribunal, changes,
                   monitorAlerts, earlierTrends>>

\* _detect_changes(trends, theme)
DetectChangesCall ==
    /\ pc = "changes_call"
    /\ \E ai \in [1..Len(trends) -> AiChangeOutcomes] :
           changes' = DetectChanges(trends, config.change_threshold, ai)
    /\ pc' = "monitor_alerts_call"
    /\ UNCHANGED <<cases, threshold, i, j, similar_pairs, simLog, k, analysis,
                   adjLog, contradictions, clusters, report, alertInput,
                   priority_threshold, alerts, call>>
    /\ UNCHANGED <<stored, taggerVars, config, cases_by_tribunal, trends,
                   monitorAlerts, earlierTrends>>

\* monitor_theme called again on the same ChangeMonitor and the same
\* buckets, followed up to the return of its _analyze_trends: the locals
\* of the second call start empty, the trends of the first are kept aside
AnalyzeTrendsAgain ==
    /\ pc = "monitored"
    /\ cases_by_tribunal # <<>>
    /\ earlierTrends' = trends
    /\ trends' = AnalyzeTrends(cases_by_tribunal)
    /\ changes' = <<>>
    /\ monitorAlerts' = <<>>
    /\ pc' = "analyzed_again"
    /\ UNCHANGED <<cases, threshold, i, j, similar_pairs, simLog, k, analysis,
                   adjLog, contradictions, clusters, report, alertInput,
                   priority_threshold, alerts, call>>
    /\ UNCHANGED <<stored, taggerVars, config, cases_by_tribunal>>

NextMonitor ==
    \/ AnalyzeTrendsCall
    \/ DetectChangesCall
    \/ GenerateAlertsCall
    \/ AnalyzeTrendsAgain

SpecMonitor == InitMonitor /\ [][NextMonitor]_vars

---------------------------------------------------------------------------
(* The two decision taggers on their own, on every text of up to MaxWords  *)
(* words of Vocabulary, a space or a hyphen between two words.             *)

Vocabulary ==
    {"recurso", "não", "nao", "provido", "desprovido", "deferido",
     "improcedente"}

Separators == {" ", "-"}

\* the tokens of the text of the words ws, seps[x] after word x
TextOf(ws, seps) ==
    [x \in 1..(2 * Len(ws) - 1) |->
        IF x % 2 = 1 THEN ws[(x + 1) \div 2] ELSE seps[x \div 2]]

InitTagger ==
    /\ pc = "tag_call"
    /\ \E n \in 1..MaxWords :
           \E ws \in [1..n -> Vocabulary], seps \in [1..(n - 1) -> Separators] :
               document = TextOf(ws, seps)
    /\ decision_type = NoneVal /\ decision = NoneVal
    /\ Idle /\ call = NoCall /\ MonitorIdle /\ stored = collection

\* _detect_decision_type(text)
DetectDecisionTypeCall ==
    /\ pc = "tag_call"
    /\ decision_type' = DetectDecisionType(document)
    /\ pc' = "tag_call_monitor"
    /\ UNCHANGED <<cases, threshold, i, j, similar_pairs, simLog, k, analysis,
                   adjLog, contradictions, clusters, report, alertInput,
                   priority_threshold, alerts, call>>
    /\ UNCHANGED <<stored, monitorVars, document, decision>>

\* _detect_decision(text)
DetectDecisionCall ==
    /\ pc = "tag_call_monitor"
    /\ decision' = DetectDecision(document)
    /\ pc' = "tagged"
    /\ UNCHANGED <<cases, threshold, i, j, similar_pairs, simLog, k, analysis,
                   adjLog, contradictions, clusters, report, alertInput,
                   priority_threshold, alerts, call>>
    /\ UNCHANGED <<stored, monitorVars, document, decision_type>>

NextTagger == DetectDecisionTypeCall \/ DetectDecisionCall

SpecTagger == InitTagger /\ [][NextTagger]_vars

---------------------------------------------------------------------------
(* detect_contradictions called with a threshold outside [0,1].            *)

MalformedThresholds == {-100, 1500}

MalformedCalls ==
    {Call(thr, n, f) : thr \in MalformedThresholds, n \in 1..MaxCases,
                       f \in TribunalFilters}

InitInputs ==
    /\ pc = "idle" /\ Idle /\ call \in MalformedCalls /\ TaggerIdle
    /\ MonitorIdle /\ stored = collection

SpecInputs == InitInputs /\ [][Next]_vars

\* detect_contradictions with every enabled step eventually taken: the
\* interpreter keeps running, and each external call ends, with a response
\* or with the exception of its client; the source sets no timeout and no
\* retry of its own on any of them (lines 215-219, 329-349)
SpecLive == Init /\ [][Next]_vars /\ WF_vars(Next)

---------------------------------------------------------------------------
(* The engine over a sequence of invocations: detect_contradictions with   *)
(* the alerts its callers ask for, or monitor_theme, one after the other   *)
(* on the same detector, monitor and collection.                           *)

\* a _collect_historical_cases that writes the decision it tagged back
\* into the metadata of the document
CollectHistoricalCasesCallTagging ==
    /\ pc = "idle"
    /\ \E ok \in BOOLEAN :
        IF ~ok
        THEN pc' = "raised" /\ UNCHANGED <<cases_by_tribunal, stored>>
        ELSE \E res \in QueryResults(call.tribunal_filter, 100) :
             /\ cases_by_tribunal' = CasesByTribunal(res)
             /\ stored' = {[d EXCEPT !.tema = DetectDecision(d.text)] :
                               d \in stored}
             /\ pc' = "trends_call"
    /\ UNCHANGED <<cases, threshold, i, j, similar_pairs, simLog, k, analysis,
                   adjLog, contradictions, clusters, report, alertInput,
                   priority_threshold, alerts, call>>
    /\ UNCHANGED <<taggerVars, config, trends, changes, monitorAlerts,
                   earlierTrends>>

\* monitor_theme up to the grouping of line 191: the embedding of the
\* theme, which may raise, the query for at most 100 documents of the
\* tribunals asked for, and the cases by tribunal and period
CollectHistoricalCasesCall ==
    /\ pc = "idle"
    /\ \E ok \in BOOLEAN :
        IF ~ok
        THEN pc' = "raised" /\ UNCHANGED <<cases_by_tribunal, stored>>
        ELSE \E res \in QueryResults(call.tribunal_filter, 100) :
             /\ cases_by_tribunal' = CasesByTribunal(res)
             /\ stored' = stored
             /\ pc' = "trends_call"
    /\ UNCHANGED <<cases, threshold, i, j, similar_pairs, simLog, k, analysis,
                   adjLog, contradictions, clusters, report, alertInput,
                   priority_threshold, alerts, call>>
    /\ UNCHANGED <<taggerVars, config, trends, changes, monitorAlerts,
                   earlierTrends>>

\* an invocation has ended, by a return or by an exception: its locals are
\* gone, and the caller makes the next one on the same objects (with the
\* same arguments: every tuple of arguments starts a run of its own)
NextInvocation ==
    /\ pc \in {"raised", "done", "alerted", "formatted", "format_raised",
              "monitored"}
    /\ pc' = "idle"
    /\ call' = call
    /\ cases' = <<>> /\ threshold' = 0 /\ i' = 0 /\ j' = 0
    /\ similar_pairs' = <<>> /\ simLog' = <<>> /\ k' = 0
    /\ analysis' = NoAnalysis /\ adjLog' = <<>> /\ contradictions' = <<>>
    /\ clusters' = <<>> /\ report' = NoReport /\ alertInput' = <<>>
    /\ priority_threshold' = "média" /\ alerts' = <<>>
    /\ cases_by_tribunal' = <<>> /\ trends' = <<>> /\ changes' = <<>>
    /\ monitorAlerts' = <<>> /\ earlierTrends' = <<>>
    /\ UNCHANGED <<stored, config, taggerVars>>

NextEngine ==
    \/ Next
    \/ CollectHistoricalCasesCall
    \/ AnalyzeTrendsCall
    \/ DetectChangesCall
    \/ GenerateAlertsCall
    \/ NextInvocation

SpecEngine == Init /\ [][NextEngine]_vars

---------------------------------------------------------------------------
(* Properties *)

\* _find_similar_pairs has returned
PairsReturned == k >= 1

\* the position in cases of a case of the call
PosOf(c) == CHOOSE p \in 1..Len(cases) : cases[p].id = c.id

\* the pairs of positions the loops of _find_similar_pairs go through
PositionPairs == {pq \in (1..Len(cases)) \X (1..Len(cases)) : pq[1] < pq[2]}

CrossBodyPairs ==
    {pq \in PositionPairs : cases[pq[1]].tribunal # cases[pq[2]].tribunal}

\* pair x of similar_pairs was generated by the loops before pair y
GeneratedBefore(x, y) ==
    LET x1 == PosOf(similar_pairs[x].case1)
        x2 == PosOf(similar_pairs[x].case2)
        y1 == PosOf(similar_pairs[y].case1)
        y2 == PosOf(similar_pairs[y].case2)
    IN  x1 < y1 \/ (x1 = y1 /\ x2 < y2)

\* C1: no SimilarCase of similar_pairs, at any point of
\* _find_similar_pairs and after it, has two cases of the same tribunal,
\* and no Contradiction built from a pair has two cases of the same tribunal
C1_DifferentBodies ==
    /\ \A x \in 1..Len(similar_pairs) :
           similar_pairs[x].case1.tribunal # similar_pairs[x].case2.tribunal
    /\ \A x \in 1..Len(contradictions) :
           contradictions[x].case1.tribunal # contradictions[x].case2.tribunal

\* C1 witness: the call went over two cases of the same tribunal, kept a
\* pair and built a Contradiction from it
C1_Witness ==
    /\ pc = "done"
    /\ \E pq \in PositionPairs : pq \notin CrossBodyPairs
    /\ similar_pairs # <<>>
    /\ contradictions # <<>>

\* C2: when _find_similar_pairs has returned, no pair of the result has a
\* score below the threshold; the similarity was computed exactly once for
\* every pair of positions i < j of different tribunals and for no other;
\* and every such pair whose similarity is greater than or equal to the
\* threshold is in the result exactly once, with that score, the result
\* holding nothing else
C2_ThresholdFilter ==
    PairsReturned =>
        /\ \A x \in 1..Len(similar_pairs) :
               similar_pairs[x].similarity_score >= threshold
        /\ {<<simLog[x].i, simLog[x].j>> : x \in 1..Len(simLog)}
               = CrossBodyPairs
        /\ Len(simLog) = Cardinality(CrossBodyPairs)
        /\ \A x \in 1..Len(simLog) :
               simLog[x].sim >= threshold =>
                   Cardinality({y \in 1..Len(similar_pairs) :
                       /\ similar_pairs[y].case1 = cases[simLog[x].i]
                       /\ similar_pairs[y].case2 = cases[simLog[x].j]
                       /\ similar_pairs[y].similarity_score = simLog[x].sim})
                   = 1
        /\ Len(similar_pairs) =
               Cardinality({x \in 1..Len(simLog) : simLog[x].sim >= threshold})

\* C2 witness: the call has returned with a pair whose score equals the
\* threshold in the result, and a pair below the threshold left out
C2_Witness ==
    /\ PairsReturned
    /\ \E x \in 1..Len(similar_pairs) :
           similar_pairs[x].similarity_score = threshold
    /\ \E x \in 1..Len(simLog) : simLog[x].sim < threshold

\* C3: when _find_similar_pairs has returned, the scores of the result
\* never increase along the list, and of two pairs of equal score the one
\* the loops generated first comes first
C3_SortedStable ==
    PairsReturned =>
        \A x, y \in 1..Len(similar_pairs) :
            x < y =>
                /\ similar_pairs[x].similarity_score
                       >= similar_pairs[y].similarity_score
                /\ similar_pairs[x].similarity_score
                       = similar_pairs[y].similarity_score
                   => GeneratedBefore(x, y)

\* C3 witness: a result with two pairs of equal score, and a pair the sort
\* moved in front of one generated before it
C3_Witness ==
    /\ PairsReturned
    /\ \E x, y \in 1..Len(similar_pairs) :
           /\ x < y
           /\ similar_pairs[x].similarity_score
                  = similar_pairs[y].similarity_score
    /\ \E x, y \in 1..Len(similar_pairs) :
           x < y /\ GeneratedBefore(y, x)

\* the three registered pairs of opposite labels
RegisteredOpposites ==
    { {"provido", "nao_provido"}, {"procedente", "improcedente"},
      {"deferido", "indeferido"} }

OppositeLabels(case1, case2) ==
    {case1.decision_type, case2.decision_type} \in RegisteredOpposites

PairLabelsOpposite(x) ==
    OppositeLabels(similar_pairs[x].case1, similar_pairs[x].case2)

\* the adjudication calls made for the pair of cases of a contradiction
CallsFor(c) ==
    {x \in 1..Len(adjLog) :
        /\ similar_pairs[adjLog[x].pair].case1.id = c.case1.id
        /\ similar_pairs[adjLog[x].pair].case2.id = c.case2.id}

\* C4: every Contradiction has labels that form a registered opposite pair
\* and an adjudication result, of the service or of the fallback, whose
\* is_contradiction is true
C4_OppositeAndConfirmed ==
    \A z \in 1..Len(contradictions) :
        /\ OppositeLabels(contradictions[z].case1, contradictions[z].case2)
        /\ \E x \in CallsFor(contradictions[z]) :
               /\ adjLog[x].analysis.kind = "object"
               /\ "is_contradiction" \in adjLog[x].analysis.keys
               /\ adjLog[x].analysis.is_contradiction = "True"

\* C5: an adjudication call is made only for a pair whose labels are a
\* registered opposite pair, and only once the gate has been passed for it
\* (no call precedes the gate of its pair, and no pair is called twice);
\* the gate lets through exactly the pairs of registered opposite labels,
\* whatever the calls made before returned
C5_GateBeforeAdjudication ==
    /\ \A x \in 1..Len(adjLog) :
           adjLog[x].pair <= k /\ PairLabelsOpposite(adjLog[x].pair)
    /\ \A x, y \in 1..Len(adjLog) : x < y => adjLog[x].pair < adjLog[y].pair
    /\ pc = "adjudicate" =>
           PairLabelsOpposite(k) /\ \A x \in 1..Len(adjLog) : adjLog[x].pair # k
    /\ PairsReturned =>
           \A x \in 1..Len(similar_pairs) :
               x < k => (PairLabelsOpposite(x)
                            <=> \E y \in 1..Len(adjLog) : adjLog[y].pair = x)

\* C5 witness: a finished call in which the service was invoked for a pair
\* and the gate turned another pair away, one with a missing label
C5_Witness ==
    /\ pc = "done"
    /\ adjLog # <<>>
    /\ \E x \in 1..Len(similar_pairs) :
           /\ ~PairLabelsOpposite(x)
           /\ NoneVal \in {similar_pairs[x].case1.decision_type,
                            similar_pairs[x].case2.decision_type}

ContradictionTypes ==
    {"decisao_oposta", "fundamento_diverso", "interpretacao_divergente",
     "criterio_conflitante"}

\* an adjudication call that failed or returned malformed data
FailedOrMalformed(o) ==
    \/ o.kind \in {"api_error", "unparsable"}
    \/ /\ o.kind = "object"
       /\ \/ ~(AnalysisKeys \subseteq o.keys)
          \/ o.is_contradiction \notin {"True", "False"}
          \/ o.type \notin ContradictionTypes
          \/ o.severity \notin Severities

\* C6: once _check_contradiction is over for a pair whose adjudication call
\* failed or returned malformed data, there is a Contradiction for the pair
\* with type decisao_oposta, severity média and an explanation that names
\* the two tribunals
C6_FallbackOnMalformed ==
    \A x \in 1..Len(adjLog) :
        (FailedOrMalformed(adjLog[x].outcome)
            /\ (adjLog[x].pair < k \/ pc = "raised"))
        => \E z \in 1..Len(contradictions) :
               /\ x \in CallsFor(contradictions[z])
               /\ contradictions[z].contradiction_type = "decisao_oposta"
               /\ contradictions[z].contradiction_severity = "média"
               /\ {contradictions[z].case1.tribunal,
                   contradictions[z].case2.tribunal}
                      \subseteq SeqToSet(contradictions[z].explanation)

\* C7: once the cases are retrieved, detect_contradictions never ends by
\* an exception: neither in the pairwise similarity computation nor in
\* the analysis of the pairs
C7_BatchNeverAborts == ~(pc = "raised" /\ i >= 1)

---------------------------------------------------------------------------
(* Properties of _cluster_contradictions *)

\* a theme is present when it is neither None nor the empty string
ThemePresent(t) == t # NoneVal /\ t # ""

\* the theme of case1 if present, else that of case2, else the label
ClaimedTheme(c) ==
    IF ThemePresent(c.case1.tema) THEN c.case1.tema
    ELSE IF ThemePresent(c.case2.tema) THEN c.case2.tema
    ELSE "Tema não especificado"

\* the places of the clusters: <<cluster, position in the cluster>>
Slots ==
    UNION { {<<x, y>> : y \in 1..Len(clusters[x].contradictions)}
            : x \in 1..Len(clusters) }

\* C8: when _cluster_contradictions has returned, every contradiction of
\* the input is at exactly one place of the clusters, in the cluster of
\* its theme (that of case1 if present, else that of case2, else "Tema não
\* especificado"); the clusters hold nothing else, none is empty and no
\* two have the same theme
C8_ClustersPartition ==
    pc = "cluster_done" =>
        /\ \A z \in 1..Len(contradictions) :
               LET at == {xy \in Slots :
                            clusters[xy[1]].contradictions[xy[2]]
                                = contradictions[z]}
               IN  /\ Cardinality(at) = 1
                   /\ \A xy \in at :
                          clusters[xy[1]].theme
                              = ClaimedTheme(contradictions[z])
        /\ Cardinality(Slots) = Len(contradictions)
        /\ \A x \in 1..Len(clusters) : clusters[x].contradictions # <<>>
        /\ \A x, y \in 1..Len(clusters) :
               x # y => clusters[x].theme # clusters[y].theme

\* C8 witness: a clustering into several clusters of an input with a
\* contradiction that takes its theme from case2 and one without theme
C8_Witness ==
    /\ pc = "cluster_done"
    /\ Len(clusters) >= 2
    /\ \E z \in 1..Len(contradictions) :
           /\ ~ThemePresent(contradictions[z].case1.tema)
           /\ ThemePresent(contradictions[z].case2.tema)
    /\ \E z \in 1..Len(contradictions) :
           /\ ~ThemePresent(contradictions[z].case1.tema)
           /\ ~ThemePresent(contradictions[z].case2.tema)

\* the position in the input of the first contradiction of a cluster's theme
FirstSeen(x) ==
    LET at == {z \in 1..Len(contradictions) :
                  ClaimedTheme(contradictions[z]) = clusters[x].theme}
    IN  CHOOSE z \in at : \A w \in at : z <= w

\* C9: when _cluster_contradictions has returned, the member counts of the
\* clusters never increase along the list, and of two clusters of equal
\* count the one whose theme the input shows first comes first
C9_ClustersSortedStable ==
    pc = "cluster_done" =>
        \A x, y \in 1..Len(clusters) :
            x < y =>
                /\ Len(clusters[x].contradictions)
                       >= Len(clusters[y].contradictions)
                /\ Len(clusters[x].contradictions)
                       = Len(clusters[y].contradictions)
                   => FirstSeen(x) < FirstSeen(y)

\* C9 witness: two clusters of equal count, and a cluster the sort moved
\* in front of one whose theme the input shows earlier
C9_Witness ==
    /\ pc = "cluster_done"
    /\ \E x, y \in 1..Len(clusters) :
           /\ x < y
           /\ Len(clusters[x].contradictions)
                  = Len(clusters[y].contradictions)
    /\ \E x, y \in 1..Len(clusters) : x < y /\ FirstSeen(y) < FirstSeen(x)

---------------------------------------------------------------------------
(* Properties of create_alerts *)

\* the total order baixa < média < alta < urgente
PriorityRank(p) ==
    CASE p = "baixa"   -> 0
      [] p = "média"   -> 1
      [] p = "alta"    -> 2
      [] p = "urgente" -> 3

\* C10: create_alerts returns no alert whose priority is below
\* priority_threshold
C10_PriorityFloor ==
    pc = "alerted" =>
        \A x \in 1..Len(alerts) :
            PriorityRank(alerts[x].priority)
                >= PriorityRank(priority_threshold)

---------------------------------------------------------------------------
(* Properties of the two alert builders *)

\* the mapping from severity to priority
ClaimedPriority(severity) ==
    CASE severity = "crítica" -> "urgente"
      [] severity = "alta"    -> "alta"
      [] severity = "média"   -> "média"
      [] severity = "baixa"   -> "baixa"

\* C11: the priority of every alert of create_alerts and of every alert of
\* _generate_alerts is the one the mapping crítica -> urgente, alta -> alta,
\* média -> média, baixa -> baixa gives for the severity of its item
C11_PriorityMapping ==
    /\ pc = "alerted" =>
           \A x \in 1..Len(alerts) :
               alerts[x].contradiction.contradiction_severity \in Severities
                   => alerts[x].priority = ClaimedPriority(
                          alerts[x].contradiction.contradiction_severity)
    /\ pc = "monitored" =>
           \A x \in 1..Len(monitorAlerts) :
               monitorAlerts[x].priority =
                   ClaimedPriority(monitorAlerts[x].change.severity)

\* create_alerts has returned alerts for three contradictions of three
\* severities, one of them crítica
C11_Witness ==
    /\ pc = "alerted"
    /\ Len(alerts) = 3
    /\ \E x \in 1..3 : alerts[x].priority = "urgente"
    /\ \A x, y \in 1..3 : x # y => alerts[x].priority # alerts[y].priority
    /\ \A x \in 1..3 :
           alerts[x].contradiction.contradiction_severity \in Severities

\* urgente first, baixa last
UrgencyRank(p) == 3 - PriorityRank(p)

\* the position in the list `items' of the item whose id is `id'
ItemPosition(items, id) == CHOOSE p \in 1..Len(items) : items[p].id = id

\* the list is sorted urgente, alta, média, baixa, and two of its elements
\* of equal priority are in the order of their items in `items'
SortedByUrgency(al, items, ItemId(_)) ==
    \A x, y \in 1..Len(al) :
        x < y =>
            /\ UrgencyRank(al[x].priority) <= UrgencyRank(al[y].priority)
            /\ al[x].priority = al[y].priority
                   => ItemPosition(items, ItemId(al[x]))
                          < ItemPosition(items, ItemId(al[y]))

\* C12: the list create_alerts returns and the list _generate_alerts
\* returns are sorted urgente, alta, média, baixa, the alerts of equal
\* priority in the order of the items they were built from
C12_AlertsSortedStable ==
    /\ pc = "alerted" =>
           SortedByUrgency(alerts, alertInput,
                           LAMBDA a : a.contradiction.id)
    /\ pc = "monitored" =>
           SortedByUrgency(monitorAlerts, changes, LAMBDA a : a.change.id)

\* _generate_alerts has returned three alerts, two of them of equal
\* priority, in another order than that of their changes
C12_Witness ==
    /\ pc = "monitored"
    /\ Len(monitorAlerts) = 3
    /\ \E x, y \in 1..3 :
           x < y /\ monitorAlerts[x].priority = monitorAlerts[y].priority
    /\ \E x \in 1..3 : monitorAlerts[x].change # changes[x]

---------------------------------------------------------------------------
(* Properties of the trend engine *)

\* _analyze_trends has returned
TrendsReturned == pc \in {"changes_call", "monitor_alerts_call", "monitored"}

\* C13: every TrendPoint of every trend stands for a period of at least
\* config.min_cases_required cases
C13_ConfiguredMinimum ==
    TrendsReturned =>
        \A x \in 1..Len(trends) :
            \A y \in 1..Len(trends[x].trend_points) :
                trends[x].trend_points[y].total_cases
                    >= config.min_cases_required

\* a common denominator of the ratios
RECURSIVE CommonDen(_)
CommonDen(ratios) ==
    IF ratios = <<>> THEN 1
    ELSE LET rest == CommonDen(Tail(ratios))
         IN  (ratios[1].den * rest) \div GCD(ratios[1].den, rest)

\* the ratios of the points of a trend
RatiosOf(trend) ==
    [y \in 1..Len(trend.trend_points) |->
        trend.trend_points[y].favorable_ratio]

\* mean(second half) - mean(first half), the series split at floor(n/2),
\* as the fraction num/den with den > 0
HalvesDiff(ratios) ==
    LET n == Len(ratios)
        h == n \div 2
        RECURSIVE Num(_, _)
        \* the sum of ratios[from..upto], in units of 1/CommonDen(ratios)
        Num(from, upto) ==
            IF from > upto THEN 0
            ELSE ratios[from].num * (CommonDen(ratios) \div ratios[from].den)
                 + Num(from + 1, upto)
    IN  [num |-> Num(h + 1, n) * h - Num(1, h) * (n - h),
         den |-> CommonDen(ratios) * h * (n - h)]

\* C14: the direction of every trend of two points or more is estável when
\* |diff| < 0.1, crescente when diff > 0.2, decrescente when diff < -0.2
\* and volátil when 0.1 <= |diff| <= 0.2, diff being mean(second half) -
\* mean(first half) of the series split at floor(n/2); exactly one of the
\* four cases holds
C14_Direction ==
    TrendsReturned =>
        \A x \in 1..Len(trends) :
            Len(trends[x].trend_points) >= 2 =>
                LET d == HalvesDiff(RatiosOf(trends[x]))
                    stable     == 10 * Abs(d.num) < d.den
                    increasing == 10 * d.num > 2 * d.den
                    decreasing == 10 * d.num < -2 * d.den
                    volatile   == /\ d.den <= 10 * Abs(d.num)
                                  /\ 10 * Abs(d.num) <= 2 * d.den
                IN  /\ stable => trends[x].overall_trend = "estável"
                    /\ increasing => trends[x].overall_trend = "crescente"
                    /\ decreasing => trends[x].overall_trend = "decrescente"
                    /\ volatile => trends[x].overall_trend = "volátil"
                    /\ Cardinality({c \in {<<1, stable>>, <<2, increasing>>,
                                            <<3, decreasing>>, <<4, volatile>>} :
                                        c[2]}) = 1

\* a trend of three points is volátil
C14_Witness ==
    /\ TrendsReturned
    /\ \E x \in 1..Len(trends) :
           /\ Len(trends[x].trend_points) = 3
           /\ trends[x].overall_trend = "volátil"

\* _detect_changes has returned
ChangesReturned == pc \in {"monitor_alerts_call", "monitored"}

\* |last - first| >= change_threshold for the ratios of the first and of
\* the last point of the trend
MagnitudeReaches(trend, change_threshold) ==
    LET first == trend.trend_points[1].favorable_ratio
        last  == trend.trend_points[Len(trend.trend_points)].favorable_ratio
    IN  Abs(last.num * first.den - first.num * last.den) * change_threshold.den
            >= change_threshold.num * first.den * last.den

\* the changes _detect_changes returned for the trend (one trend for a
\* tribunal)
ChangesOf(trend) ==
    {y \in 1..Len(changes) : changes[y].tribunal = trend.tribunal}

\* C15: _detect_changes returns one ChangeDetection for a trend of two
\* points or more whose first and last ratio differ by
\* config.change_threshold or more, none for any other trend, and no
\* ChangeDetection that is of no trend
C15_ChangeIffThreshold ==
    ChangesReturned =>
        /\ \A x \in 1..Len(trends) :
               Cardinality(ChangesOf(trends[x])) =
                   IF /\ Len(trends[x].trend_points) >= 2
                      /\ MagnitudeReaches(trends[x], config.change_threshold)
                   THEN 1 ELSE 0
        /\ \A y \in 1..Len(changes) :
               \E x \in 1..Len(trends) : y \in ChangesOf(trends[x])

\* of two trends one gave a ChangeDetection; the other, of two points or
\* more, gave none
C15_Witness ==
    /\ ChangesReturned
    /\ Len(trends) = 2
    /\ Len(changes) = 1
    /\ \E x \in 1..2 :
           /\ ChangesOf(trends[x]) = {}
           /\ Len(trends[x].trend_points) >= 2

\* the rows of the table of change types: the first row that holds gives
\* the type and the severity; a ratio is above (below) a bound given in
\* tenths, and `variance' is the square of the volatility of the trend
FirstRow(variance, before, after) ==
    LET row1 == /\ 10 * before.num > 7 * before.den
                /\ 10 * after.num < 3 * after.den
        \* after - before, in units of 1/(before.den * after.den)
        delta == after.num * before.den - before.num * after.den
        row2 == 10 * delta < -3 * before.den * after.den
        row3 == 10 * delta > 3 * before.den * after.den
        row4 == 100 * variance.num > 9 * variance.den
    IN  IF row1 THEN <<"inversão_total", "crítica">>
        ELSE IF row2 THEN <<"endurecimento", "alta">>
        ELSE IF row3 THEN <<"flexibilização", "alta">>
        ELSE IF row4 THEN <<"divergência", "média">>
        ELSE <<"consolidação", "baixa">>

\* the trend the change was found in
TrendOf(change) ==
    CHOOSE x \in 1..Len(trends) : trends[x].tribunal = change.tribunal

\* the ratios 0.8, 0.75, 0.2, 0.15
ExampleRatios ==
    << [num |-> 4, den |-> 5], [num |-> 3, den |-> 4],
       [num |-> 1, den |-> 5], [num |-> 3, den |-> 20] >>

---------------------------------------------------------------------------
(* Properties of the decision taggers *)

\* the groups of favorable outcome
FavorableLabels == {"provido", "procedente", "deferido"}

\* an order of the groups in which every group of favorable outcome is
\* tried before every group of unfavorable outcome
FavorableFirst ==
    <<"provido", "procedente", "deferido",
      "nao_provido", "improcedente", "indeferido">>

\* the pattern of the group is found in the text
GroupMatches(label, t) ==
    \E x \in 1..Len(decision_patterns) :
        /\ decision_patterns[x].label = label
        /\ PatternFound(decision_patterns[x], t)

\* C17: _detect_decision_type returns a value for every text: the label of
\* the first group, the groups of favorable outcome tried before those of
\* unfavorable outcome, whose pattern is found in the text, and None when
\* the pattern of no group is found
C17_FirstMatchFavorableFirst ==
    pc \in {"tag_call_monitor", "tagged"} =>
        LET hits == {x \in 1..Len(FavorableFirst) :
                        GroupMatches(FavorableFirst[x], document)}
        IN  IF hits = {} THEN decision_type = NoneVal
            ELSE decision_type =
                     FavorableFirst[CHOOSE x \in hits : \A y \in hits : x <= y]

\* the words that name no outcome
NeutralWords == {"recurso"}

\* the text holds "não provido", "nao provido", "não-provido" or
\* "nao-provido" and, other than that, words that name no outcome
OnlyNegatedOutcome(t) ==
    \E off \in 0..(Len(t) - 3) :
        /\ t[off + 1] \in {"não", "nao"}
        /\ t[off + 2] \in {" ", "-"}
        /\ t[off + 3] = "provido"
        /\ \A x \in 1..Len(t) :
               (x % 2 = 1 /\ x \notin {off + 1, off + 3})
                   => t[x] \in NeutralWords

\* C18: a text whose only outcome phrase is "não provido", "nao provido"
\* or "não-provido" is tagged nao_provido by _detect_decision_type and
\* desfavorável by _detect_decision
C18_NegatedVariants ==
    (pc = "tagged" /\ OnlyNegatedOutcome(document)) =>
        /\ decision_type = "nao_provido"
        /\ decision = "desfavorável"

---------------------------------------------------------------------------
(* Properties of detect_contradictions as a whole *)

\* detect_contradictions was called with a similarity threshold outside
\* [0,1]
MalformedCall ==
    call # NoCall /\ call.similarity_threshold \notin 0..One

\* C19: a call of detect_contradictions with a malformed argument ends with
\* an error before anything is retrieved, compared or adjudicated, and
\* returns no report
C19_InputErrors ==
    MalformedCall =>
        /\ pc \in {"idle", "raised"}
        /\ cases = <<>> /\ simLog = <<>> /\ adjLog = <<>>
        /\ report = NoReport

\* the retrieval of detect_contradictions gave fewer than 2 cases
FewCases == call # NoCall /\ pc \notin {"idle", "raised"} /\ Len(cases) < 2

\* C20: when the retrieval gives fewer than 2 cases detect_contradictions
\* returns a report of no contradiction and no cluster, whose
\* total_cases_analyzed is the number of cases retrieved and whose
\* highlights say that few cases were found; no similarity is computed and
\* no adjudication is asked for
C20_FewCasesEmptyReport ==
    FewCases =>
        /\ pc = "done"
        /\ report.returned
        /\ report.contradictions_found = 0
        /\ report.clusters = <<>>
        /\ report.total_cases_analyzed = Len(cases)
        /\ report.highlights # <<>>
        /\ \E x \in 1..Len(report.highlights) :
               report.highlights[x] = "poucos casos encontrados"
        /\ simLog = <<>> /\ adjLog = <<>>

\* the retrieval gave one case and the report counts it
C20_Witness ==
    /\ FewCases
    /\ Len(cases) = 1
    /\ report.returned
    /\ report.total_cases_analyzed = 1

\* C21: every batch eventually returns its report, whatever the external
\* calls do: a call that gets no usable response ends in the fallback and
\* the batch goes on to return
C21_BatchReturns == <>(report.returned)


\* C22: every Contradiction carries a contradiction_type of the four
\* enumerated types and a severity of the four enumerated levels, whatever
\* the adjudication service answered
C22_EnumeratedTypeAndSeverity ==
    \A x \in 1..Len(contradictions) :
        /\ contradictions[x].contradiction_type \in ContradictionTypes
        /\ contradictions[x].contradiction_severity \in Severities


\* the cases of the first and of the last bucket of the trend of a change
EvidenceCases(change) ==
    LET points == trends[TrendOf(change)].trend_points
    IN  points[1].total_cases + points[Len(points)].total_cases

\* C23: the confidence of every ChangeDetection is min(1.0, (before_cases +
\* after_cases) / 20): it is the twentieth part of the cases of the first
\* and last bucket while these are fewer than 20, it never exceeds 1.0, and
\* it is 1.0 exactly when the two buckets hold 20 cases or more
C23_Confidence ==
    ChangesReturned =>
        \A y \in 1..Len(changes) :
            LET n == EvidenceCases(changes[y])
                c == changes[y].confidence
            IN  /\ c.num <= c.den
                /\ (c.num = c.den) <=> (n >= 20)
                /\ n < 20 => c.num * 20 = n * c.den
                /\ changes[y].before_cases + changes[y].after_cases = n

\* one change rests on 20 cases or more and has confidence 1.0, another on
\* fewer and has a confidence below 1.0
C23_Witness ==
    /\ ChangesReturned
    /\ \E y, z \in 1..Len(changes) :
           /\ EvidenceCases(changes[y]) >= 20
           /\ changes[y].confidence = [num |-> 1, den |-> 1]
           /\ EvidenceCases(changes[z]) < 20
           /\ changes[z].confidence.num < changes[z].confidence.den


\* the second trend analysis of the same buckets has returned
AnalyzedAgain == pc = "analyzed_again"

C25_CorpusOnlyRead == [][stored' = stored /\ config' = config]_vars

\* a monitor_theme that grouped the cases it read has returned: the
\* collection holds what it held
C25_Witness ==
    /\ pc = "monitored"
    /\ cases_by_tribunal # <<>>
    /\ stored = collection


\* the ratio r lies above 0.7, below 0.3
Above07(r) == 10 * r.num > 7 * r.den
Below03(r) == 10 * r.num < 3 * r.den

\* C26: a change from favorable to unfavorable and one from unfavorable to
\* favorable are both inversão_total: before > 0.7 with after < 0.3, and
\* before < 0.3 with after > 0.7
C26_ReversalBothWays ==
    ChangesReturned =>
        \A y \in 1..Len(changes) :
            (\/ Above07(changes[y].before_ratio) /\ Below03(changes[y].after_ratio)
             \/ Below03(changes[y].before_ratio) /\ Above07(changes[y].after_ratio))
                => changes[y].change_type = "inversão_total"


\* C27: format_alert returns its text for every alert create_alerts
\* produced, so that the callers that print the alerts of a report, among
\* them detect_contradictions_cmd on a report with a critical
\* contradiction, complete without an exception
C27_FormatAlertReturns == pc # "format_raised"


\* create_alerts has returned the alerts of a reported contradiction
AlertsReturned == pc \in {"alerted", "formatted", "format_raised"}

\* C28: every cluster of a report detect_contradictions returned lists two
\* affected tribunals or more, and every alert create_alerts built from the
\* contradictions of the report names two tribunals, one different from the
\* other
C28_TwoBodies ==
    /\ report.returned =>
           \A x \in 1..Len(report.clusters) :
               Cardinality(report.clusters[x].affected_tribunals) >= 2
    /\ AlertsReturned =>
           \A y \in 1..Len(alerts) :
               /\ Len(alerts[y].tribunals_involved) = 2
               /\ alerts[y].tribunals_involved[1] #
                      alerts[y].tribunals_involved[2]

\* alerts were built from a report with a cluster of a single contradiction
\* and from one with two clusters
C28_Witness ==
    /\ AlertsReturned
    /\ alerts # <<>>
    /\ \E x \in 1..Len(report.clusters) :
           Len(report.clusters[x].contradictions) = 1
    /\ Len(report.clusters) >= 2


\* the position in similar_pairs of the pair the contradiction came from
PairOf(c) ==
    CHOOSE p \in 1..Len(similar_pairs) :
        /\ similar_pairs[p].case1 = c.case1
        /\ similar_pairs[p].case2 = c.case2

\* C29: over the n retrieved cases every similarity evaluated is that of a
\* pair of two different positions, no pair of positions is evaluated
\* twice, the similar pairs are at most n(n-1)/2, the adjudication calls at
\* most the similar pairs, the contradictions (and the contradictions_found
\* of the report) at most the adjudication calls, and the contradictions
\* follow one another as the pairs they came from do, by descending
\* similarity
C29_PairsOnceAndCounts ==
    /\ \A x \in 1..Len(simLog) :
           /\ simLog[x].i \in 1..Len(cases) /\ simLog[x].j \in 1..Len(cases)
           /\ simLog[x].i < simLog[x].j
    /\ \A x, y \in 1..Len(simLog) :
           x # y => {simLog[x].i, simLog[x].j} # {simLog[y].i, simLog[y].j}
    /\ Len(similar_pairs) <= Len(simLog)
    /\ 2 * Len(simLog) <= Len(cases) * (Len(cases) - 1)
    /\ Len(adjLog) <= Len(similar_pairs)
    /\ Len(contradictions) <= Len(adjLog)
    /\ report.returned => report.contradictions_found <= Len(adjLog)
    /\ \A x, y \in 1..Len(contradictions) :
           x < y =>
               /\ PairOf(contradictions[x]) < PairOf(contradictions[y])
               /\ contradictions[x].similarity_score >=
                      contradictions[y].similarity_score

\* three cases gave three similar pairs, of which two were adjudicated and
\* became contradictions of different similarity
C29_Witness ==
    /\ pc = "done"
    /\ Len(cases) = 3
    /\ Len(similar_pairs) = 3
    /\ Len(adjLog) = 2
    /\ Len(contradictions) = 2
    /\ contradictions[1].similarity_score > contradictions[2].similarity_score


\* |after - before| of the change compared with the ratio bound: above it,
\* and at it or above
MagnitudeAbove(change, bound) ==
    LET b == change.before_ratio
        a == change.after_ratio
    IN  Abs(a.num * b.den - b.num * a.den) * bound.den
            > bound.num * b.den * a.den

MagnitudeAtLeast(change, bound) ==
    LET b == change.before_ratio
        a == change.after_ratio
    IN  Abs(a.num * b.den - b.num * a.den) * bound.den
            >= bound.num * b.den * a.den

Ratio030 == [num |-> 3, den |-> 10]

=============================================================================
